---- MODULE Spec2Model ----
(***************************************************************************)
(* Model of juju486/video-cut-tool.                                        *)
(*                                                                         *)
(*  - the Clip-Audio Reconciler: composeVideosWithOpen in                  *)
(*    scripts/video_concat.js (batch loop, selection retry loop);          *)
(*  - the checkpointed enhancement pipeline: runEnhance (unnamed/part_002);*)
(*  - the scene segmenter: the main loop of scripts/video_split.js with    *)
(*    splitVideoToClipsWithAlias of scripts/alias_utils.js.                *)
(*                                                                         *)
(* Durations are integers in tenths of a second; a playback rate is the    *)
(* pair <<num, den>> of the division the code performs.                    *)
(***************************************************************************)
EXTENDS Integers, Sequences, FiniteSets, TLC

\* ------------------------------------------------------------------------
\* Configuration of the Reconciler (defaults of video_concat.js, in ticks
\* of 0.1 s, rates in hundredths).
numNewVideos == 2
minVideoRateNum == 95
maxVideoRateNum == 105
RateDen == 100
minClipDuration == 15
maxClipDuration == 300
maxAVDiff == 2
videoShorterAudioMaxDiff == 20
videoLongerAudioMaxDiff == 20
MaxTries == 100

\* parseFloat of an empty or unreadable ffprobe answer: every comparison
\* with it is false and every sum with it is NaN again.
NaN == -1000000

\* Inputs: the probed durations of the clips in clipsDir and of the audio
\* files in the music directory (sorted listing).
Pool1 == <<150, 140, 132>>
Pool2 == <<200, 200, 10>>
Pool3 == <<150, NaN, 132>>
Pool4 == <<290>>
Pool5 == <<290, 10, 140>>
ClipPools == {Pool1, Pool2, Pool3, Pool5}
LivePools == {Pool2, Pool4}
musicFiles == <<300, 290>>

VARIABLES
  \* ---- Reconciler (composeVideosWithOpen)
  rpc,            \* position: "head" | "select" | "chosen" | "encode" | "done"
  allClips,       \* durations of the clips of clipsDir, by index
  musicStartIdx,  \* lastMusicIdx % musicFiles.length (0-based)
  successCount,
  usedOrders,     \* the Set usedOrders
  tryCount,
  found,
  selectedClips,  \* [clips: sequence of clip indices, cutLastTo: ticks or 0]
  selectedDur,
  order,          \* sequence of clip indices, or Undefined
  videoRates,     \* <<num, den>>, or Undefined
  assembly,       \* the selection handed to encoding, or NoAssembly
  handed,         \* history: the orders handed to encoding so far
  outcomes,       \* history: how each counted target ended: "ok" |
                  \* "failed" | "failedbreak" (the break of the catch was
                  \* taken) | "noaudio"
  tempOutPath,    \* the file tempOutPath exists
  skippedNow,     \* history: the current target has been logged as skipped
  \* ---- Enhancement (runEnhance, frame-level fallback)
  epc,            \* "idle" | "direct" | "tmp" | "extract" | "audio" | "load"
                  \* | "spawn" | "work" | "reassemble" | "cleanup"
  eruns,          \* invocations of runEnhance so far
  resume,         \* opts.resume
  jobs,           \* opts.jobs
  dirs,           \* the .realesrgan_tmp_<t> directories of outDir, by t
  tmpDir,         \* t of this run's tmpDir, 0 before it is computed
  haveFrames,
  haveAudio,
  pending,        \* sequence of frames
  idx,
  checkpoint,     \* checkpoint.done in memory (set of frames)
  wpc,            \* worker -> "off" | "run" | "write" | "end"
  wframe,         \* worker -> the frame f it holds, 0 if none
  wsnap,          \* worker -> the checkpoint its writeJson call serialized
  extracted,      \* history: this run ran the frame extraction
  processed,      \* history: frames this run sent to the upscaler
  priorK,         \* history: frames in checkpoint.json when the previous
                  \* run was interrupted in the worker stage, -1 if none
  outFrames,      \* frames of the reassembled output, -1 if none
  directResult,   \* history: how the direct video mode of this run ended:
                  \* "none" | "ok" | "outputpath" | "other" | "spawn"
  \* ---- Segmenter (main loop of video_split.js)
  spc,            \* "idle" | "next" | "detect" | "fixdetect" | "redetect"
                  \* | "split" | "fixsplit" | "finish" | "hung"
  sruns,          \* runs of the script so far
  loc,            \* source -> "input" | "todo" | "done" | "detfail"
                  \*           | "splitfail" | "noscene"
  scenes,         \* source -> number of adjacent boundary pairs detection
                  \* finds (sceneFrames.length - 1), 0 for no cut
  clips,          \* source -> ordinals i of the files <alias>_<i>.mp4
  queue,          \* videoFiles still to visit in this run
  cur,            \* the file of the current iteration, 0 if none
  pass,           \* 1: first doSplit, 2: doSplit after quickFixVideo
  segi,           \* 0: before getFps, i >= 1: next segment of the loop
  cutFailed,      \* history: source -> a segment of its last doSplit failed
  detFailedTwice, \* history: source -> run in which detection failed on
                  \* the input and on the fixed file, 0 if never
  clipsBefore,    \* history: clips when the current run started
  \* ---- Executor of one cut (splitOneSegment)
  xpc,            \* "variants" | "remux" | "remuxprobe" | "reenc"
                  \* | "reencprobe" | "fixed" | "done"
  fastSplitCopy,  \* config.fastSplitCopy
  fastSeekFirst,  \* config.fastSeekFirst
  xi,             \* the loop index i or j (1-based)
  xrunning,       \* the external processes running for this operation
  xlog,           \* history: the processes that have ended, with exit code
  xfixed,         \* the file quickFixVideo returned: "remux" | "reenc"
  lastErr,        \* lastErr is set
  xresult,        \* "none" | "true" | "false" | "throw"
  outPath,        \* the file at outPath: "none" | "partial" | "complete"
  \* ---- Encode stages of one Assembly (concatClipsWithAudio)
  cpc,            \* the stage awaited: "concattest" | "concat" | "rate"
                  \* | "trim" | "mux" | "hardtrim" | "remux" | "rename"
                  \* | "catch" | "done"
  rateChange,     \* videoRates[0] !== 1.0
  tailTrim,       \* clips.cutLastTo is set
  ffmpegRemuxCopy, \* config.ffmpegRemuxCopy
  stagesRun,      \* history: the stages that have ended, with outcome
  tempOutFile,    \* tempOutPath exists
  deliverable,    \* outPath exists
  assemblyResult, \* "none" | "finished" | "abandoned"
  \* ---- One attempt of the retry loop as a function
  jpc,            \* "shuffled" | "accumulated" | "judged"
  jA,             \* audioDuration
  jidxs,          \* the shuffled indices
  jtmp,           \* tmpClips and tmpDur
  jverdict,       \* the verdict of the judging block
  jhanded,        \* selectedClips and videoRates as passed to the encoding
  \* ---- One scene detection (getSceneChangeFrames)
  dpc,            \* "running" | "resolved" | "rejected"
  reported,       \* the pts_time texts in stderr, in order of appearance
  times,          \* the array the promise resolves with
  \* ---- Runs of the batch and the state files of outputDir
  bpc,            \* "exited" | "loop"
  bruns,          \* runs of composeVideosWithOpen started so far
  lastMusicIdxJson,   \* last_music_idx.json: <<>> if absent, else
                      \* <<lastMusicIdx>> (inputDir and musicDir unchanged)
  assigned,       \* history: the track (audioIdx, from 1) of every counted
                  \* target, all runs
  interrupted,    \* history: a run ended before the end of the batch
  outputFiles,    \* indices i of the files <prefix>_<date>_<i>.mp4 under
                  \* outputDir
  lastVideoIndexJson, \* last_video_index.json[<prefix>_<date>], 0 if absent
  finalized,      \* history: [idx, fileMax, stateMax] of every rename
  \* ---- The alias map (generateOrUpdateAliasMap)
  aliasMapJson,   \* alias_map.json: the entries <<alias, base name>>
  inputDir,       \* base names of the video files in inputDir
  aliasRuns,      \* calls of generateOrUpdateAliasMap so far
  todo,           \* the listed videos of the run not yet handled, in order
  segs,           \* history: <<alias, file>> for every file cut into
                  \* segment files <alias>_<i>.mp4
  skipped,        \* history: <<file, alias>> for every file moved away as
                  \* already split
  \* ---- The GUI main process (ipcMain handlers of the task subprocess)
  currentTask,    \* the ChildProcess recorded in currentTask (its number in
                  \* tasks), 0 for null
  currentTaskType,    \* "split" | "concat", "null" for null
  tasks           \* history: the task subprocesses spawned so far, each
                  \* [type, proc, signalled, tool, units]

rvars == <<rpc, allClips, musicStartIdx, successCount, usedOrders,
           tryCount, found, selectedClips, selectedDur, order, videoRates,
           assembly, handed, outcomes, tempOutPath, skippedNow>>

evars == <<epc, eruns, resume, jobs, dirs, tmpDir, haveFrames, haveAudio,
           pending, idx, checkpoint, wpc, wframe, wsnap, extracted,
           processed, priorK, outFrames,
          directResult>>

svars == <<spc, sruns, loc, scenes, clips, queue, cur, pass, segi,
           cutFailed, detFailedTwice, clipsBefore>>

xvars == <<xpc, fastSplitCopy, fastSeekFirst, xi, xrunning, xlog, xfixed,
           lastErr, xresult, outPath>>

cvars == <<cpc, rateChange, tailTrim, ffmpegRemuxCopy, stagesRun,
           tempOutFile, deliverable, assemblyResult>>

jvars == <<jpc, jA, jidxs, jtmp, jverdict, jhanded>>

dvars == <<dpc, reported, times>>

bvars == <<bpc, bruns, lastMusicIdxJson, assigned, interrupted,
           outputFiles, lastVideoIndexJson, finalized>>

avars == <<aliasMapJson, inputDir, aliasRuns, todo, segs, skipped>>

gvars == <<currentTask, currentTaskType, tasks>>

vars == <<rvars, evars, svars, xvars, cvars, jvars, dvars, bvars, avars,
          gvars>>

\* ------------------------------------------------------------------------
\* Bounds of the enhancement pipeline and of the segmenter, and their
\* states before their first run.
NumFrames == 3
MaxJobs == 2
MaxTime == 2
MaxEnhRuns == 2
NumSources == 2
MaxSegs == 2
MaxSplitRuns == 2

Frames == 1..NumFrames
Workers == 1..MaxJobs
Times == 1..MaxTime
Sources == 1..NumSources

NoDir == [exists |-> FALSE, frames |-> {}, enhanced |-> {}, audio |-> FALSE,
          hasCheckpoint |-> FALSE, checkpoint |-> {}, copied |-> {}]
EmptyDir == [NoDir EXCEPT !.exists = TRUE]

\* Memory of one invocation of runEnhance before the fallback starts.
FreshRun ==
  /\ tmpDir' = 0
  /\ haveFrames' = FALSE
  /\ haveAudio' = FALSE
  /\ pending' = <<>>
  /\ idx' = 0
  /\ checkpoint' = {}
  /\ wpc' = [w \in Workers |-> "off"]
  /\ wframe' = [w \in Workers |-> 0]
  /\ wsnap' = [w \in Workers |-> {}]

EInit ==
  /\ epc = "idle"
  /\ eruns = 0
  /\ resume = TRUE
  /\ jobs = 1
  /\ dirs = [t \in Times |-> NoDir]
  /\ tmpDir = 0
  /\ haveFrames = FALSE
  /\ haveAudio = FALSE
  /\ pending = <<>>
  /\ idx = 0
  /\ checkpoint = {}
  /\ wpc = [w \in Workers |-> "off"]
  /\ wframe = [w \in Workers |-> 0]
  /\ wsnap = [w \in Workers |-> {}]
  /\ extracted = FALSE
  /\ processed = {}
  /\ priorK = -1
  /\ outFrames = -1
  /\ directResult = "none"

\* All videos lie in inputDir, clipsDir is empty.
SInit ==
  /\ spc = "idle"
  /\ sruns = 0
  /\ loc = [s \in Sources |-> "input"]
  /\ scenes \in [Sources -> 0..MaxSegs]
  /\ clips = [s \in Sources |-> {}]
  /\ queue = <<>>
  /\ cur = 0
  /\ pass = 1
  /\ segi = 0
  /\ cutFailed = [s \in Sources |-> FALSE]
  /\ detFailedTwice = [s \in Sources |-> 0]
  /\ clipsBefore = [s \in Sources |-> {}]

SIdle == SInit /\ scenes = [s \in Sources |-> 1]

\* One call of splitOneSegment, before its first variant.
XInit ==
  /\ xpc = "variants"
  /\ fastSplitCopy \in BOOLEAN
  /\ fastSeekFirst \in BOOLEAN
  /\ xi = 1
  /\ xrunning = {}
  /\ xlog = <<>>
  /\ xfixed = "none"
  /\ lastErr = FALSE
  /\ xresult = "none"
  /\ outPath = "none"

XIdle == XInit /\ ~fastSplitCopy /\ ~fastSeekFirst

\* One selection handed to the encode stages: a rate and a tail trim are
\* never set together by the retry loop.
CInit ==
  /\ cpc = "concattest"
  /\ rateChange \in BOOLEAN
  /\ tailTrim \in BOOLEAN
  /\ ~(rateChange /\ tailTrim)
  /\ ffmpegRemuxCopy \in BOOLEAN
  /\ stagesRun = <<>>
  /\ tempOutFile = FALSE
  /\ deliverable = FALSE
  /\ assemblyResult = "none"

CIdle == CInit /\ ~rateChange /\ ~tailTrim /\ ffmpegRemuxCopy

\* The texts that /pts_time:([\d.]+)/ captures.
Tokens == {"0", "0.0", "1.5", "3", "4.5"}
MaxReported == 3

\* One detection process running, its stderr complete.
DInit ==
  /\ dpc = "running"
  /\ reported \in UNION {[1..n -> Tokens] : n \in 0..MaxReported}
  /\ times = <<>>

DIdle == reported = <<>> /\ DInit

\* No run of the batch has started: no state file, no output file.
BIdle ==
  /\ bpc = "exited"
  /\ bruns = 0
  /\ lastMusicIdxJson = <<>>
  /\ assigned = <<>>
  /\ interrupted = FALSE
  /\ outputFiles = {}
  /\ lastVideoIndexJson = 0
  /\ finalized = <<>>

\* No alias map has been written and inputDir is empty.
AIdle ==
  /\ aliasMapJson = {}
  /\ inputDir = {}
  /\ aliasRuns = 0
  /\ todo = <<>>
  /\ segs = {}
  /\ skipped = {}

\* The GUI main process has spawned no task.
GIdle ==
  /\ currentTask = 0
  /\ currentTaskType = "null"
  /\ tasks = <<>>

\* No attempt is being evaluated as a function.
JIdle ==
  /\ jpc = "judged"
  /\ jA = 0
  /\ jidxs = <<>>
  /\ jtmp = [clips |-> <<>>, dur |-> 0]
  /\ jverdict = [kind |-> "unjudged", rate |-> <<0, 0>>, cut |-> 0]
  /\ jhanded = [clips |-> <<>>, rate |-> <<0, 0>>, cut |-> 0]

\* ------------------------------------------------------------------------
\* JavaScript numbers with NaN.
IsNaN(x) == x = NaN
Add(a, b) == IF IsNaN(a) \/ IsNaN(b) THEN NaN ELSE a + b
Sub(a, b) == IF IsNaN(a) \/ IsNaN(b) THEN NaN ELSE a - b
Lt(a, b) == ~IsNaN(a) /\ ~IsNaN(b) /\ a < b
Gt(a, b) == ~IsNaN(a) /\ ~IsNaN(b) /\ a > b
Ge(a, b) == ~IsNaN(a) /\ ~IsNaN(b) /\ a >= b
Le(a, b) == ~IsNaN(a) /\ ~IsNaN(b) /\ a <= b
Abs(x) == IF IsNaN(x) THEN NaN ELSE IF x < 0 THEN 0 - x ELSE x

Undefined == <<0>>
NoRate == <<0, 0>>
One == <<1, 1>>
NoAssembly == [clips |-> <<>>, cutLastTo |-> 0, rate |-> Undefined, T |-> 0,
               A |-> 0]

\* shuffle([...Array(n).keys()]): any permutation of the indices.
shuffle(n) == {p \in [1..n -> 1..n] : \A i, j \in 1..n : p[i] = p[j] => i = j}

getClipDuration(f) == allClips[f]

\* audioIdx = (musicStartIdx + successCount) % musicFiles.length
audioIdx == ((musicStartIdx + successCount) % Len(musicFiles)) + 1
audioDuration == musicFiles[audioIdx]

\* The variant of the loop without the test of the clip duration.
RECURSIVE AccumulateAnyDuration(_, _, _, _)
AccumulateAnyDuration(idxs, i, tmp, A) ==
  IF i > Len(idxs) THEN tmp
  ELSE LET dur == getClipDuration(idxs[i]) IN
       IF Gt(Add(tmp.dur, dur), A + maxAVDiff)
       THEN tmp
       ELSE LET nxt == [clips |-> Append(tmp.clips, idxs[i]),
                        dur |-> Add(tmp.dur, dur)]
            IN IF Ge(nxt.dur, A) THEN nxt
               ELSE AccumulateAnyDuration(idxs, i + 1, nxt, A)

\* The greedy accumulation over the shuffled indices.
RECURSIVE Accumulate(_, _, _, _)
Accumulate(idxs, i, tmp, A) ==
  IF i > Len(idxs) THEN tmp
  ELSE LET dur == getClipDuration(idxs[i]) IN
       IF Lt(dur, minClipDuration) \/ Gt(dur, maxClipDuration)
       THEN Accumulate(idxs, i + 1, tmp, A)
       ELSE IF Gt(Add(tmp.dur, dur), A + maxAVDiff)
       THEN tmp
       ELSE LET nxt == [clips |-> Append(tmp.clips, idxs[i]),
                        dur |-> Add(tmp.dur, dur)]
            IN IF Ge(nxt.dur, A) THEN nxt
               ELSE Accumulate(idxs, i + 1, nxt, A)

\* The upper bound alone (the variant without vRate >= minVideoRate).
RateInBoundsNoMin(num, den) ==
  /\ ~IsNaN(num) /\ ~IsNaN(den)
  /\ num * RateDen <= maxVideoRateNum * den

\* No rate accepted (the variant whose rate test always fails).
RateNeverInBounds(num, den) == FALSE

\* vRate >= minVideoRate && vRate <= maxVideoRate, for vRate = num / den.
RateInBounds(num, den) ==
  /\ ~IsNaN(num) /\ ~IsNaN(den)
  /\ num * RateDen >= minVideoRateNum * den
  /\ num * RateDen <= maxVideoRateNum * den

\* The verdict of one attempt on the accumulated clips:
\*   "continue" (the continue statements), "found" (found = true with the
\*   rate and the cut), "none" (no branch sets found).
Judge(tmp, A) ==
  LET diff == Sub(tmp.dur, A) IN
  IF Lt(diff, 0 - maxAVDiff) THEN
    IF Gt(Abs(diff), videoShorterAudioMaxDiff)
    THEN [kind |-> "continue", rate |-> NoRate, cut |-> 0]
    ELSE IF RateInBounds(tmp.dur, A)
    THEN [kind |-> "found", rate |-> <<tmp.dur, A>>, cut |-> 0]
    ELSE [kind |-> "none", rate |-> NoRate, cut |-> 0]
  ELSE IF Gt(diff, maxAVDiff) THEN
    IF Gt(diff, videoLongerAudioMaxDiff)
    THEN [kind |-> "continue", rate |-> NoRate, cut |-> 0]
    ELSE IF RateInBounds(A, tmp.dur)
    THEN [kind |-> "found", rate |-> <<A, tmp.dur>>, cut |-> 0]
    ELSE LET lastClipDur == getClipDuration(tmp.clips[Len(tmp.clips)]) IN
         IF Ge(Sub(lastClipDur, diff), minClipDuration)
         THEN [kind |-> "found", rate |-> One, cut |-> Sub(lastClipDur, diff)]
         ELSE [kind |-> "none", rate |-> NoRate, cut |-> 0]
  ELSE [kind |-> "found", rate |-> One, cut |-> 0]

\* ------------------------------------------------------------------------
\* Reconciler: initial state (after the setup of composeVideosWithOpen).
RInit ==
  /\ rpc = "head"
  /\ allClips \in ClipPools \cup LivePools
  /\ musicStartIdx \in 0..(Len(musicFiles) - 1)
  /\ successCount = 0
  /\ usedOrders = {}
  /\ tryCount = 0
  /\ found = FALSE
  /\ selectedClips = [clips |-> <<>>, cutLastTo |-> 0]
  /\ selectedDur = 0
  /\ order = Undefined
  /\ videoRates = Undefined
  /\ assembly = NoAssembly
  /\ handed = <<>>
  /\ outcomes = <<>>
  /\ tempOutPath = FALSE
  /\ skippedNow = FALSE

\* The variables declared in the body of the while loop (selectedClips,
\* selectedDur, order, videoRates, tryCount, found) live for one iteration.
FreshTarget ==
  /\ selectedClips' = [clips |-> <<>>, cutLastTo |-> 0]
  /\ selectedDur' = 0
  /\ order' = Undefined
  /\ videoRates' = Undefined
  /\ tryCount' = 0
  /\ found' = FALSE

\* while (successCount < numNewVideos): the loop ends.
BatchExit ==
  /\ rpc = "head"
  /\ UNCHANGED <<evars, svars, xvars, cvars, jvars, dvars, bvars, avars, gvars>>
  /\ ~(successCount < numNewVideos)
  /\ rpc' = "done"
  /\ UNCHANGED <<allClips, musicStartIdx, successCount, usedOrders,
                 tryCount, found, selectedClips, selectedDur, order,
                 videoRates, assembly, handed, outcomes, tempOutPath,
                 skippedNow>>

\* The chosen audio file does not exist: successCount++; continue.
AudioMissing ==
  /\ rpc = "head"
  /\ UNCHANGED <<evars, svars, xvars, cvars, jvars, dvars, bvars, avars, gvars>>
  /\ successCount < numNewVideos
  /\ successCount' = successCount + 1
  /\ outcomes' = Append(outcomes, "noaudio")
  /\ skippedNow' = FALSE
  /\ UNCHANGED <<rpc, allClips, musicStartIdx, usedOrders,
                 tryCount, found, selectedClips, selectedDur, order,
                 videoRates, assembly, handed, tempOutPath>>

\* The audio exists: its duration is probed and the do-while loop is entered.
BeginTarget ==
  /\ rpc = "head"
  /\ UNCHANGED <<evars, svars, xvars, cvars, jvars, dvars, bvars, avars, gvars>>
  /\ successCount < numNewVideos
  /\ rpc' = "select"
  /\ UNCHANGED <<allClips, musicStartIdx, successCount, usedOrders,
                 tryCount, found, selectedClips, selectedDur, order,
                 videoRates, assembly, handed, outcomes, tempOutPath,
                 skippedNow>>

\* One iteration of the do-while loop, its condition included.
Attempt(idxs) ==
  /\ rpc = "select"
  /\ UNCHANGED <<evars, svars, xvars, cvars, jvars, dvars, bvars, avars, gvars>>
  /\ LET tmp == Accumulate(idxs, 1, [clips |-> <<>>, dur |-> 0], audioDuration)
         v == Judge(tmp, audioDuration)
         nfound == found \/ v.kind = "found"
         assign == v.kind # "continue" /\ nfound
         norder == IF assign THEN tmp.clips ELSE order
     IN /\ tryCount' = tryCount + 1
        /\ found' = nfound
        /\ videoRates' = IF v.kind = "found" THEN v.rate ELSE videoRates
        /\ selectedClips' = IF assign
                            THEN [clips |-> tmp.clips, cutLastTo |-> v.cut]
                            ELSE selectedClips
        /\ selectedDur' = IF assign THEN tmp.dur ELSE selectedDur
        /\ order' = norder
        /\ rpc' = IF (~nfound \/ norder \in usedOrders) /\ tryCount + 1 < MaxTries
                  THEN "select" ELSE "chosen"
  /\ UNCHANGED <<allClips, musicStartIdx, successCount, usedOrders,
                 assembly, handed, outcomes, tempOutPath, skippedNow>>

\* After the loop: usedOrders.add(order); nothing selected: the target is
\* logged as skipped, tryIndex++, continue (successCount is left as it is).
SkipTarget ==
  /\ rpc = "chosen"
  /\ UNCHANGED <<evars, svars, xvars, cvars, jvars, dvars, bvars, avars, gvars>>
  /\ Len(selectedClips.clips) = 0
  /\ usedOrders' = usedOrders \cup {order}
  /\ skippedNow' = TRUE
  /\ rpc' = "head"
  /\ FreshTarget
  /\ UNCHANGED <<allClips, musicStartIdx, successCount, assembly, handed,
                 outcomes, tempOutPath>>

\* After the loop: usedOrders.add(order); the selection goes to encoding
\* with its rate and its cut.
HandToEncoding ==
  /\ rpc = "chosen"
  /\ UNCHANGED <<evars, svars, xvars, cvars, jvars, dvars, bvars, avars, gvars>>
  /\ Len(selectedClips.clips) # 0
  /\ usedOrders' = usedOrders \cup {order}
  /\ assembly' = [clips |-> selectedClips.clips,
                   cutLastTo |-> selectedClips.cutLastTo,
                   rate |-> videoRates,
                   T |-> selectedDur,
                   A |-> audioDuration]
  /\ handed' = Append(handed, selectedClips.clips)
  /\ rpc' = "encode"
  /\ UNCHANGED <<allClips, musicStartIdx, successCount, tryCount, found,
                 selectedClips, selectedDur, order, videoRates, skippedNow,
                 outcomes, tempOutPath>>

\* concatClips and concatClipsWithAudio succeed, tempOutPath is renamed to
\* outPath: successCount++.
EncodeOk ==
  /\ rpc = "encode"
  /\ UNCHANGED <<evars, svars, xvars, cvars, jvars, dvars, bvars, avars, gvars>>
  /\ successCount' = successCount + 1
  /\ outcomes' = Append(outcomes, "ok")
  /\ rpc' = "head"
  /\ FreshTarget
  /\ assembly' = NoAssembly
  /\ skippedNow' = FALSE
  /\ UNCHANGED <<allClips, musicStartIdx, usedOrders, handed, tempOutPath>>

\* An encode stage throws; written: the re-mux stage has left a file
\* under tempOutPath.  The catch of the loop body is entered.
EncodeFail(written) ==
  /\ rpc = "encode"
  /\ UNCHANGED <<evars, svars, xvars, cvars, jvars, dvars, bvars, avars, gvars>>
  /\ tempOutPath' = written
  /\ rpc' = "catch"
  /\ UNCHANGED <<allClips, musicStartIdx, successCount, usedOrders,
                 tryCount, found, selectedClips, selectedDur, order,
                 videoRates, assembly, handed, outcomes, skippedNow>>

\* The variant of the catch that leaves the temporary output.
unlinkSyncSkipped(exists) == exists

\* if (fs.existsSync(tempOutPath)) fs.unlinkSync(tempOutPath)
unlinkSync(exists) == FALSE

\* The variant that leaves the loop at the first failure.
AnyFailureTooMany(count) == TRUE

\* if (successCount >= numNewVideos * 2) break, after successCount++
TooManyFailures(count) == count >= numNewVideos * 2

\* catch (error): the temporary output is removed, successCount++, and the
\* loop is left once successCount >= numNewVideos * 2.
CatchEncodeError ==
  /\ rpc = "catch"
  /\ UNCHANGED <<evars, svars, xvars, cvars, jvars, dvars, bvars, avars, gvars>>
  /\ tempOutPath' = unlinkSync(tempOutPath)
  /\ successCount' = successCount + 1
  /\ outcomes' = Append(outcomes, IF TooManyFailures(successCount + 1)
                                  THEN "failedbreak" ELSE "failed")
  /\ rpc' = IF TooManyFailures(successCount + 1) THEN "done" ELSE "head"
  /\ FreshTarget
  /\ assembly' = NoAssembly
  /\ skippedNow' = FALSE
  /\ UNCHANGED <<allClips, musicStartIdx, usedOrders, handed>>

RNext ==
  \/ BatchExit
  \/ AudioMissing
  \/ BeginTarget
  \/ \E idxs \in shuffle(Len(allClips)) : Attempt(idxs)
  \/ SkipTarget
  \/ HandToEncoding
  \/ EncodeOk
  \/ \E written \in BOOLEAN : EncodeFail(written)
  \/ CatchEncodeError

\* The Reconciler on its own, and with the fairness of its scheduling: the
\* loop is sequential code that always takes its next step once the external
\* call it waits for returns (WF), and a shuffle that can set found is not
\* avoided for ever (SF).
AttemptFinds == \E idxs \in shuffle(Len(allClips)) : Attempt(idxs) /\ ~found /\ found'

InitRecon == RInit /\ EInit /\ SIdle /\ XIdle /\ CIdle /\ JIdle /\ DIdle /\ BIdle /\ AIdle /\ GIdle
SpecRecon == InitRecon /\ [][RNext]_vars
InitReconLive ==
  RInit /\ allClips \in LivePools /\ EInit /\ SIdle /\ XIdle /\ CIdle /\ JIdle /\ DIdle /\ BIdle /\ AIdle /\ GIdle
FairSpecRecon ==
  InitReconLive /\ [][RNext]_vars /\ WF_vars(RNext) /\ SF_vars(AttemptFinds)

\* ------------------------------------------------------------------------
\* Claims about the Reconciler.

\* A rate is applied by the encode stage when videoRates[0] !== 1.0.
RateApplied(r) == r # Undefined /\ r[1] # r[2]

\* The planned effective duration of a selection differs from the audio
\* duration by at most maxAVDiff: T / r under a rate r = num / den, T minus
\* the trim under a tail trim, T otherwise.
PlannedWithinTolerance(a) ==
  LET trim == getClipDuration(a.clips[Len(a.clips)]) - a.cutLastTo
      dev(x) == IF x < 0 THEN 0 - x ELSE x
  IN IF RateApplied(a.rate)
     THEN dev(a.T * a.rate[2] - a.A * a.rate[1]) <= maxAVDiff * a.rate[1]
     ELSE IF a.cutLastTo # 0
     THEN dev((a.T - trim) - a.A) <= maxAVDiff
     ELSE dev(a.T - a.A) <= maxAVDiff

\* C1: every selection the retry loop hands to encoding (whose clips were all
\* probed) has a planned effective duration within maxAVDiff of the audio
\* duration, also on an attempt that follows a candidate rejected as a
\* duplicate.
C1_AcceptedWithinTolerance ==
  (rpc = "encode" /\ ~IsNaN(assembly.T)) => PlannedWithinTolerance(assembly)

\* C2: no two selections handed to encoding in one batch are the same
\* ordered selection, also when the attempt ceiling is reached.
C2_NoDuplicateSelection ==
  \A i, j \in 1..Len(handed) : handed[i] = handed[j] => i = j

\* C3: a rate that is applied to an accepted selection lies within
\* [minVideoRate, maxVideoRate], and an attempt whose computed rate lies
\* outside leaves found and videoRates as they were (or, on the longer side,
\* is accepted by a tail trim at rate 1.0).
RateWithin(r) ==
  /\ r[1] * RateDen >= minVideoRateNum * r[2]
  /\ r[1] * RateDen <= maxVideoRateNum * r[2]

ComputedRateOutside(idxs) ==
  LET tmp == Accumulate(idxs, 1, [clips |-> <<>>, dur |-> 0], audioDuration)
      diff == Sub(tmp.dur, audioDuration)
  IN /\ ~IsNaN(diff)
     /\ \/ /\ diff < 0 - maxAVDiff
           /\ 0 - diff <= videoShorterAudioMaxDiff
           /\ ~RateWithin(<<tmp.dur, audioDuration>>)
        \/ /\ diff > maxAVDiff
           /\ diff <= videoLongerAudioMaxDiff
           /\ ~RateWithin(<<audioDuration, tmp.dur>>)

C4_SkippedTargetNotRetried == rpc = "select" => ~skippedNow

\* C5: the batch loop eventually exits.
C5_BatchTerminates == <>(rpc = "done")

\* C27: a clip whose duration cannot be probed (getClipDuration resolves
\* with NaN) is skipped: it is in no selection handed to encoding.
C27_UnprobedClipNotSelected ==
  rpc = "encode" =>
    \A i \in 1..Len(assembly.clips) : ~IsNaN(getClipDuration(assembly.clips[i]))

\* dur < minClipDuration || dur > maxClipDuration
OutOfRange(dur) == Lt(dur, minClipDuration) \/ Gt(dur, maxClipDuration)

Ended(how) == Cardinality({i \in 1..Len(outcomes) : outcomes[i] \in how})

\* C25: the batch loop is left before all targets are produced only
\* because of excessive failures: when the loop has ended, either every
\* target has been produced (or had no audio file), or the failures have
\* reached numNewVideos * 2 and the loop was left by the break that reports
\* too many failures.
C25_LeftEarlyOnlyOnExcessiveFailures ==
  rpc = "done"
    => \/ Ended({"ok", "noaudio"}) >= numNewVideos
       \/ /\ Ended({"failed", "failedbreak"}) >= numNewVideos * 2
          /\ outcomes[Len(outcomes)] = "failedbreak"

\* C39: when the batch loop has been left, the finalized targets, the
\* failed targets and the targets without audio file add up to
\* numNewVideos, and at no time are more than numNewVideos finalized.
C39_TargetSlotsAddUp ==
  /\ rpc = "done" =>
       /\ Ended({"ok"}) + Ended({"failed", "failedbreak"}) + Ended({"noaudio"})
            = numNewVideos
       /\ successCount = numNewVideos
  /\ Ended({"ok"}) <= numNewVideos

\* The loop has been left after a finalized and a failed target.
C39_Witness_FinalizedAndFailed ==
  /\ rpc = "done"
  /\ Ended({"ok"}) >= 1
  /\ Ended({"failed", "failedbreak"}) >= 1

\* ------------------------------------------------------------------------
\* The enhancement pipeline: runEnhance of unnamed/part_002.

\* readdir(...).filter(png).sort()
RECURSIVE SortedSeq(_)
SortedSeq(S) ==
  IF S = {} THEN <<>>
  ELSE LET m == CHOOSE x \in S : \A y \in S : x <= y
       IN <<m>> \o SortedSeq(S \ {m})

\* The variant that starts no worker.
concurrencyNone == 0

\* const concurrency = Math.max(1, jobs || 1)
concurrency == IF jobs > 1 THEN jobs ELSE 1

\* runEnhance is called (once per input file, and again when the user runs
\* the tool again on the same input and outDir).
StartEnhance(r, j) ==
  /\ epc = "idle"
  /\ UNCHANGED <<rvars, svars, xvars, cvars, jvars, dvars, bvars, avars, gvars>>
  /\ eruns < MaxEnhRuns
  /\ eruns' = eruns + 1
  /\ resume' = r
  /\ jobs' = j
  /\ epc' = "direct"
  /\ FreshRun
  /\ extracted' = FALSE
  /\ processed' = {}
  /\ outFrames' = -1
  /\ directResult' = "none"
  /\ UNCHANGED <<dirs, priorK>>

\* The direct video mode exits with code 0: return.
DirectOk ==
  /\ epc = "direct"
  /\ UNCHANGED <<rvars, svars, xvars, cvars, jvars, dvars, bvars, avars, gvars>>
  /\ epc' = "idle"
  /\ outFrames' = NumFrames
  /\ priorK' = -1
  /\ directResult' = "ok"
  /\ UNCHANGED <<eruns, resume, jobs, dirs, tmpDir, haveFrames, haveAudio,
                 pending, idx, checkpoint, wpc, wframe, wsnap, extracted,
                 processed>>

\* The ways the direct video mode fails: a non-zero exit code with the
\* "invalid outputpath" / "invalid output" message, a non-zero exit code
\* without it (throw new Error inside the try), a rejected runCmd (spawn
\* error).
DirectFailures == {"outputpath", "other", "spawn"}

\* The step that follows a failure of the direct video mode: the message is
\* recognized and the try block ends, or the exception thrown inside the
\* try block is caught by its own catch, which logs it; in each case the
\* fallback follows.
AfterDirectFailure(cls) == "tmp"

\* The direct video mode fails.
DirectFails(cls) ==
  /\ epc = "direct"
  /\ UNCHANGED <<rvars, svars, xvars, cvars, jvars, dvars, bvars, avars, gvars>>
  /\ epc' = AfterDirectFailure(cls)
  /\ directResult' = cls
  /\ UNCHANGED <<eruns, resume, jobs, dirs, tmpDir, haveFrames, haveAudio,
                 pending, idx, checkpoint, wpc, wframe, wsnap, extracted,
                 processed, priorK, outFrames>>

\* tmpDir = .realesrgan_tmp_${Date.now()}, ensureDir(frames, enhanced),
\* haveFrames, haveAudio.  t is the value of the clock.
MakeTmpDir(t) ==
  /\ epc = "tmp"
  /\ UNCHANGED <<rvars, svars, xvars, cvars, jvars, dvars, bvars, avars, gvars>>
  /\ tmpDir' = t
  /\ dirs' = [dirs EXCEPT ![t] = IF @.exists THEN @ ELSE EmptyDir]
  /\ haveFrames' = (dirs[t].frames # {})
  /\ haveAudio' = dirs[t].audio
  /\ epc' = "extract"
  /\ UNCHANGED <<eruns, directResult, resume, jobs, pending, idx, checkpoint, wpc, wframe,
                 wsnap, extracted, processed, priorK, outFrames>>

\* if (resume && haveFrames): the extraction is skipped.
ExtractSkip ==
  /\ epc = "extract"
  /\ UNCHANGED <<rvars, svars, xvars, cvars, jvars, dvars, bvars, avars, gvars>>
  /\ resume /\ haveFrames
  /\ epc' = "audio"
  /\ UNCHANGED <<eruns, directResult, resume, jobs, dirs, tmpDir, haveFrames, haveAudio,
                 pending, idx, checkpoint, wpc, wframe, wsnap, extracted,
                 processed, priorK, outFrames>>

\* else: ffmpeg -y -i inFile frames/frame_%06d.png
ExtractFrames ==
  /\ epc = "extract"
  /\ UNCHANGED <<rvars, svars, xvars, cvars, jvars, dvars, bvars, avars, gvars>>
  /\ ~(resume /\ haveFrames)
  /\ dirs' = [dirs EXCEPT ![tmpDir].frames = Frames]
  /\ extracted' = TRUE
  /\ epc' = "audio"
  /\ UNCHANGED <<eruns, directResult, resume, jobs, tmpDir, haveFrames, haveAudio,
                 pending, idx, checkpoint, wpc, wframe, wsnap, processed,
                 priorK, outFrames>>

\* if (resume && haveAudio): the audio extraction is skipped.
AudioSkip ==
  /\ epc = "audio"
  /\ UNCHANGED <<rvars, svars, xvars, cvars, jvars, dvars, bvars, avars, gvars>>
  /\ resume /\ haveAudio
  /\ epc' = "load"
  /\ UNCHANGED <<eruns, directResult, resume, jobs, dirs, tmpDir, haveFrames, haveAudio,
                 pending, idx, checkpoint, wpc, wframe, wsnap, extracted,
                 processed, priorK, outFrames>>

\* else: ffmpeg -y -i inFile -vn -acodec copy audio.aac
ExtractAudio ==
  /\ epc = "audio"
  /\ UNCHANGED <<rvars, svars, xvars, cvars, jvars, dvars, bvars, avars, gvars>>
  /\ ~(resume /\ haveAudio)
  /\ dirs' = [dirs EXCEPT ![tmpDir].audio = TRUE]
  /\ epc' = "load"
  /\ UNCHANGED <<eruns, directResult, resume, jobs, tmpDir, haveFrames, haveAudio,
                 pending, idx, checkpoint, wpc, wframe, wsnap, extracted,
                 processed, priorK, outFrames>>

\* frameFiles, checkpoint (read from checkpoint.json under resume), pending,
\* idx = 0, and the loop that starts the workers: each worker runs up to its
\* first await, so worker w takes pending[w] or ends at once.
LoadCheckpoint ==
  /\ epc = "load"
  /\ UNCHANGED <<rvars, svars, xvars, cvars, jvars, dvars, bvars, avars, gvars>>
  /\ LET frameFiles == SortedSeq(dirs[tmpDir].frames)
         done == IF resume /\ dirs[tmpDir].hasCheckpoint
                 THEN dirs[tmpDir].checkpoint ELSE {}
         pend == SelectSeq(frameFiles, LAMBDA f : f \notin done)
         n == IF concurrency < Len(pend) THEN concurrency ELSE Len(pend)
     IN /\ checkpoint' = done
        /\ pending' = pend
        /\ idx' = n
        /\ wpc' = [w \in Workers |-> IF w > concurrency THEN "off"
                                     ELSE IF w <= n THEN "run" ELSE "end"]
        /\ wframe' = [w \in Workers |-> IF w <= n THEN pend[w] ELSE 0]
        /\ processed' = {pend[w] : w \in 1..n}
  /\ epc' = "work"
  /\ UNCHANGED <<eruns, directResult, resume, jobs, dirs, tmpDir, haveFrames, haveAudio,
                 wsnap, extracted, priorK, outFrames>>

\* The variant without the copy of the unscaled frame.
copyFileSkipped(enhancedDir, f) == enhancedDir

\* await fs.copyFile(src, dst): the unscaled frame f is put into enhancedDir.
copyFile(enhancedDir, f) == enhancedDir \cup {f}

\* The upscaler returns for the frame of worker w: ok, the frame is
\* enhanced; not ok (r.code !== 0, or runCmd throws), the unscaled frame is
\* copied (copied: history of these frames). Then checkpoint.done[f] = true
\* and writeJson is called, which serializes checkpoint now and writes the
\* file later.
FrameDone(w, ok) ==
  /\ epc = "work"
  /\ UNCHANGED <<rvars, svars, xvars, cvars, jvars, dvars, bvars, avars, gvars>>
  /\ wpc[w] = "run"
  /\ dirs' = [dirs EXCEPT
       ![tmpDir].enhanced = IF ok THEN @ \cup {wframe[w]}
                            ELSE copyFile(@, wframe[w]),
       ![tmpDir].copied = IF ok THEN @ \ {wframe[w]} ELSE @ \cup {wframe[w]}]
  /\ checkpoint' = checkpoint \cup {wframe[w]}
  /\ wsnap' = [wsnap EXCEPT ![w] = checkpoint \cup {wframe[w]}]
  /\ wpc' = [wpc EXCEPT ![w] = "write"]
  /\ UNCHANGED <<epc, eruns, directResult, resume, jobs, tmpDir, haveFrames, haveAudio,
                 pending, idx, wframe, extracted, processed, priorK,
                 outFrames>>

\* The file write of worker w's writeJson call completes; the worker goes
\* on: if (idx >= pending.length) break; f = pending[idx++].
WriteLands(w) ==
  /\ epc = "work"
  /\ UNCHANGED <<rvars, svars, xvars, cvars, jvars, dvars, bvars, avars, gvars>>
  /\ wpc[w] = "write"
  /\ dirs' = [dirs EXCEPT ![tmpDir].hasCheckpoint = TRUE,
                          ![tmpDir].checkpoint = wsnap[w]]
  /\ wsnap' = [wsnap EXCEPT ![w] = {}]
  /\ IF idx >= Len(pending)
     THEN /\ wpc' = [wpc EXCEPT ![w] = "end"]
          /\ wframe' = [wframe EXCEPT ![w] = 0]
          /\ UNCHANGED <<idx, processed>>
     ELSE /\ wpc' = [wpc EXCEPT ![w] = "run"]
          /\ wframe' = [wframe EXCEPT ![w] = pending[idx + 1]]
          /\ idx' = idx + 1
          /\ processed' = processed \cup {pending[idx + 1]}
  /\ UNCHANGED <<epc, eruns, directResult, resume, jobs, tmpDir, haveFrames, haveAudio,
                 pending, checkpoint, extracted, priorK, outFrames>>

\* await Promise.all(workers) returns.
WorkersDone ==
  /\ epc = "work"
  /\ UNCHANGED <<rvars, svars, xvars, cvars, jvars, dvars, bvars, avars, gvars>>
  /\ \A w \in Workers : wpc[w] \in {"off", "end"}
  /\ epc' = "reassemble"
  /\ UNCHANGED <<eruns, directResult, resume, jobs, dirs, tmpDir, haveFrames, haveAudio,
                 pending, idx, checkpoint, wpc, wframe, wsnap, extracted,
                 processed, priorK, outFrames>>

\* The ways the two ffmpeg calls of the reassembly end: both exit with
\* code 0; the rebuild from the frames exits with a non-zero code; the
\* audio merge exits with a non-zero code; ffmpeg cannot be spawned.
ReassembleResults == {"ok", "rebuildfails", "muxfails", "spawnerror"}

\* runCmd: p.on('close', code => resolve({ code, stdout, stderr })) for
\* every exit code, p.on('error', err => reject(err)).
runCmdRejects(result) == result = "spawnerror"

\* The video is rebuilt from enhanced/frame_%06d.png and the audio merged;
\* the results of the two runCmd calls are not looked at.  A rejected
\* runCmd leaves runEnhance with an exception, which main logs.
Reassemble(result) ==
  /\ epc = "reassemble"
  /\ UNCHANGED <<rvars, svars, xvars, cvars, jvars, dvars, bvars, avars, gvars>>
  /\ IF runCmdRejects(result)
     THEN /\ epc' = "idle"
          /\ priorK' = Cardinality(dirs[tmpDir].checkpoint)
          /\ FreshRun
          /\ extracted' = FALSE
          /\ processed' = {}
          /\ UNCHANGED <<dirs, outFrames>>
     ELSE /\ outFrames' = IF result = "ok"
                          THEN Cardinality(dirs[tmpDir].enhanced) ELSE -1
          /\ epc' = "cleanup"
          /\ UNCHANGED <<dirs, tmpDir, haveFrames, haveAudio, pending, idx,
                         checkpoint, wpc, wframe, wsnap, extracted,
                         processed, priorK>>
  /\ UNCHANGED <<eruns, directResult, resume, jobs>>

\* fs.remove(tmpDir); return.
Cleanup ==
  /\ epc = "cleanup"
  /\ UNCHANGED <<rvars, svars, xvars, cvars, jvars, dvars, bvars, avars, gvars>>
  /\ dirs' = [dirs EXCEPT ![tmpDir] = NoDir]
  /\ epc' = "idle"
  /\ FreshRun
  /\ extracted' = FALSE
  /\ processed' = {}
  /\ priorK' = -1
  /\ UNCHANGED <<eruns, directResult, resume, jobs, outFrames>>

\* The process is stopped during the fallback.  What is on disk stays; a
\* frame extraction under way has written its first j frames; writes not
\* yet completed are lost with the memory of the process.
EnhanceInterrupted(j) ==
  /\ epc \in {"extract", "audio", "load", "work", "reassemble", "cleanup"}
  /\ UNCHANGED <<rvars, svars, xvars, cvars, jvars, dvars, bvars, avars, gvars>>
  /\ IF epc = "extract" /\ ~(resume /\ haveFrames)
     THEN dirs' = [dirs EXCEPT ![tmpDir].frames = @ \cup (1..j)]
     ELSE j = 0 /\ UNCHANGED dirs
  /\ priorK' = IF epc \in {"work", "reassemble", "cleanup"}
               THEN Cardinality(dirs[tmpDir].checkpoint) ELSE -1
  /\ epc' = "idle"
  /\ FreshRun
  /\ extracted' = FALSE
  /\ processed' = {}
  /\ UNCHANGED <<eruns, directResult, resume, jobs, outFrames>>

ENext ==
  \/ \E r \in BOOLEAN, j \in 1..MaxJobs : StartEnhance(r, j)
  \/ DirectOk
  \/ \E cls \in DirectFailures : DirectFails(cls)
  \/ \E t \in Times : MakeTmpDir(t)
  \/ ExtractSkip
  \/ ExtractFrames
  \/ AudioSkip
  \/ ExtractAudio
  \/ LoadCheckpoint
  \/ \E w \in Workers, ok \in BOOLEAN : FrameDone(w, ok)
  \/ \E w \in Workers : WriteLands(w)
  \/ WorkersDone
  \/ \E result \in ReassembleResults : Reassemble(result)
  \/ Cleanup
  \/ \E j \in 0..NumFrames : EnhanceInterrupted(j)

RIdle == RInit /\ allClips = Pool4 /\ musicStartIdx = 0

InitEnh == EInit /\ RIdle /\ SIdle /\ XIdle /\ CIdle /\ JIdle /\ DIdle /\ BIdle /\ AIdle /\ GIdle
SpecEnh == InitEnh /\ [][ENext]_vars

\* ------------------------------------------------------------------------
\* Claims about the enhancement pipeline.

\* C6: a run with resume enabled that follows a run interrupted with k >= 1
\* of the n frames in the checkpoint skips the frame extraction, sends exactly
\* the remaining n - k frames to the upscaler and ends with n enhanced
\* frames.
C6_ResumeProcessesRemaining ==
  (epc = "reassemble" /\ resume /\ priorK >= 1)
    => /\ ~extracted
       /\ Cardinality(processed) = NumFrames - priorK
       /\ Cardinality(dirs[tmpDir].enhanced) = NumFrames

\* C7: once all workers have finished, checkpoint.json marks every frame
\* completed in this run as done.
C7_NoLostCheckpointUpdate ==
  epc = "reassemble" => processed \subseteq dirs[tmpDir].checkpoint

\* C35: every pending frame is pulled from the shared list by exactly one
\* worker: the frames held by two workers differ, a frame a worker holds is
\* not yet marked done, no worker pulls a frame that was pulled before in
\* this run, and when all workers have ended every pending frame has been
\* pulled and has its file in the enhanced directory.
C35_EachPendingFramePulledOnce ==
  /\ [](\A w1, w2 \in Workers :
         (w1 # w2 /\ wframe[w1] # 0 /\ wframe[w2] # 0)
           => wframe[w1] # wframe[w2])
  /\ [](\A w \in Workers :
         wpc[w] = "run" =>
           /\ wframe[w] \notin checkpoint
           /\ \E i \in 1..Len(pending) : pending[i] = wframe[w])
  /\ [][\A w \in Workers :
          (wframe'[w] # wframe[w] /\ wframe'[w] # 0)
            => wframe'[w] \notin processed]_vars
  /\ [](epc = "reassemble" =>
         /\ idx = Len(pending)
         /\ \A i \in 1..Len(pending) :
              /\ pending[i] \in processed
              /\ pending[i] \in dirs[tmpDir].enhanced)

\* Two workers have shared three pending frames and have ended.
C35_Witness_TwoWorkersShareFrames ==
  /\ epc = "reassemble"
  /\ jobs = 2
  /\ Len(pending) >= 3
  /\ Cardinality(processed) = Len(pending)

\* ------------------------------------------------------------------------
\* The segmenter: the main loop of scripts/video_split.js, with
\* splitVideoToClipsWithAlias of scripts/alias_utils.js.

\* getVideoFiles(todoDir): the videos directly in the pending folder.
TodoFiles(l) == SelectSeq([s \in Sources |-> s], LAMBDA s : l[s] = "todo")

\* The variant that never finds a segment file.
checkExistingClipsNone(s) == FALSE

\* checkExistingClips(alias): some <alias>_*.mp4 exists in clipsDir.
checkExistingClips(s) == clips[s] # {}

\* fs.renameSync(filePath, path.join(dir, file))
MoveTo(l, s, dir) == [l EXCEPT ![s] = dir]

\* A catch that leaves the file where it is (the variant without the move).
LeftPending(l, s) == l

\* The catch (e2) of the detection: the file is moved to doneDir/检测失败.
MoveToDetectionFailed(l, s) == MoveTo(l, s, "detfail")

\* The script starts: the videos of inputDir are moved to the pending
\* folder, videoFiles is read; with no video the script returns.
StartSplitRun ==
  /\ spc = "idle"
  /\ UNCHANGED <<rvars, evars, xvars, cvars, jvars, dvars, bvars, avars, gvars>>
  /\ sruns < MaxSplitRuns
  /\ sruns' = sruns + 1
  /\ LET moved == [s \in Sources |-> IF loc[s] = "input" THEN "todo" ELSE loc[s]]
     IN /\ loc' = moved
        /\ queue' = TodoFiles(moved)
        /\ spc' = IF TodoFiles(moved) = <<>> THEN "idle" ELSE "next"
  /\ cur' = 0
  /\ pass' = 1
  /\ segi' = 0
  /\ clipsBefore' = clips
  /\ UNCHANGED <<scenes, clips, cutFailed, detFailedTwice>>

\* The for loop over videoFiles is over.
SplitRunEnds ==
  /\ spc = "next"
  /\ UNCHANGED <<rvars, evars, xvars, cvars, jvars, dvars, bvars, avars, gvars>>
  /\ queue = <<>>
  /\ spc' = "idle"
  /\ cur' = 0
  /\ UNCHANGED <<sruns, loc, scenes, clips, queue, pass, segi, cutFailed,
                 detFailedTwice, clipsBefore>>

\* if (alias && checkExistingClips(alias)): moved to doneDir, continue.
SkipExisting ==
  /\ spc = "next"
  /\ UNCHANGED <<rvars, evars, xvars, cvars, jvars, dvars, bvars, avars, gvars>>
  /\ queue # <<>>
  /\ checkExistingClips(Head(queue))
  /\ loc' = MoveTo(loc, Head(queue), "done")
  /\ queue' = Tail(queue)
  /\ cur' = 0
  /\ UNCHANGED <<spc, sruns, scenes, clips, pass, segi, cutFailed,
                 detFailedTwice, clipsBefore>>

\* Otherwise the scene detection is started on the file.
BeginDetect ==
  /\ spc = "next"
  /\ UNCHANGED <<rvars, evars, xvars, cvars, jvars, dvars, bvars, avars, gvars>>
  /\ queue # <<>>
  /\ ~checkExistingClips(Head(queue))
  /\ cur' = Head(queue)
  /\ queue' = Tail(queue)
  /\ spc' = "detect"
  /\ UNCHANGED <<sruns, loc, scenes, clips, pass, segi, cutFailed,
                 detFailedTwice, clipsBefore>>

\* The variant that never takes a file for one without transition point.
NoTransitionPointNever(len) == FALSE

\* !sceneFrames || sceneFrames.length < 2, for len = sceneFrames.length
\* (scenes[s] + 1 boundaries delimit scenes[s] segments).
NoTransitionPoint(len) == len < 2

\* After a detection that returned: fewer than two boundaries move the file
\* to 无转场点, otherwise the split is entered.
AfterDetect ==
  IF NoTransitionPoint(scenes[cur] + 1)
  THEN /\ loc' = MoveTo(loc, cur, "noscene")
       /\ spc' = "next"
       /\ cur' = 0
       /\ UNCHANGED <<pass, segi>>
  ELSE /\ spc' = "split"
       /\ pass' = 1
       /\ segi' = 0
       /\ UNCHANGED <<loc, cur>>

\* getSceneChangeFrames(filePath) resolves.
DetectOk ==
  /\ spc = "detect"
  /\ UNCHANGED <<rvars, evars, xvars, cvars, jvars, dvars, bvars, avars, gvars>>
  /\ AfterDetect
  /\ UNCHANGED <<sruns, scenes, clips, queue, cutFailed, detFailedTwice, clipsBefore>>

\* getSceneChangeFrames(filePath) rejects: quickFixVideo is called.
DetectFails ==
  /\ spc = "detect"
  /\ UNCHANGED <<rvars, evars, xvars, cvars, jvars, dvars, bvars, avars, gvars>>
  /\ spc' = "fixdetect"
  /\ UNCHANGED <<sruns, loc, scenes, clips, queue, cur, pass, segi,
                 cutFailed, detFailedTwice, clipsBefore>>

\* quickFixVideo returns the fixed file: detection runs on it.
DetectFixOk ==
  /\ spc = "fixdetect"
  /\ UNCHANGED <<rvars, evars, xvars, cvars, jvars, dvars, bvars, avars, gvars>>
  /\ spc' = "redetect"
  /\ UNCHANGED <<sruns, loc, scenes, clips, queue, cur, pass, segi,
                 cutFailed, detFailedTwice, clipsBefore>>

\* quickFixVideo throws: catch (e2), the file goes to 检测失败.
DetectFixFails ==
  /\ spc = "fixdetect"
  /\ UNCHANGED <<rvars, evars, xvars, cvars, jvars, dvars, bvars, avars, gvars>>
  /\ loc' = MoveToDetectionFailed(loc, cur)
  /\ spc' = "next"
  /\ cur' = 0
  /\ UNCHANGED <<sruns, scenes, clips, queue, pass, segi, cutFailed,
                 detFailedTwice, clipsBefore>>

\* The detection on the fixed file resolves.
RedetectOk ==
  /\ spc = "redetect"
  /\ UNCHANGED <<rvars, evars, xvars, cvars, jvars, dvars, bvars, avars, gvars>>
  /\ AfterDetect
  /\ UNCHANGED <<sruns, scenes, clips, queue, cutFailed, detFailedTwice, clipsBefore>>

\* The detection on the fixed file rejects as well: catch (e2), the file
\* goes to 检测失败.
RedetectFails ==
  /\ spc = "redetect"
  /\ UNCHANGED <<rvars, evars, xvars, cvars, jvars, dvars, bvars, avars, gvars>>
  /\ loc' = MoveToDetectionFailed(loc, cur)
  /\ detFailedTwice' = [detFailedTwice EXCEPT ![cur] = sruns]
  /\ spc' = "next"
  /\ cur' = 0
  /\ UNCHANGED <<sruns, scenes, clips, queue, pass, segi, cutFailed,
                 clipsBefore>>

\* doSplit: getFps resolves, the loop over the boundary pairs starts.
GetFpsOk ==
  /\ spc = "split"
  /\ UNCHANGED <<rvars, evars, xvars, cvars, jvars, dvars, bvars, avars, gvars>>
  /\ segi = 0
  /\ IF scenes[cur] >= 1
     THEN segi' = 1 /\ UNCHANGED spc
     ELSE segi' = 0 /\ spc' = "finish"
  /\ cutFailed' = [cutFailed EXCEPT ![cur] = FALSE]
  /\ UNCHANGED <<sruns, loc, scenes, clips, queue, cur, pass,
                 detFailedTwice, clipsBefore>>

\* doSplit throws (getFps rejects: ffprobe cannot be spawned): the first
\* time quickFixVideo is called, the second time the file goes to 分割失败.
GetFpsFails ==
  /\ spc = "split"
  /\ UNCHANGED <<rvars, evars, xvars, cvars, jvars, dvars, bvars, avars, gvars>>
  /\ segi = 0
  /\ IF pass = 1
     THEN /\ spc' = "fixsplit"
          /\ UNCHANGED <<loc, cur>>
     ELSE /\ loc' = MoveTo(loc, cur, "splitfail")
          /\ spc' = "next"
          /\ cur' = 0
  /\ UNCHANGED <<sruns, scenes, clips, queue, pass, segi, cutFailed,
                 detFailedTwice, clipsBefore>>

\* quickFixVideo returns the fixed file: doSplit is called on it.
SplitFixOk ==
  /\ spc = "fixsplit"
  /\ UNCHANGED <<rvars, evars, xvars, cvars, jvars, dvars, bvars, avars, gvars>>
  /\ spc' = "split"
  /\ pass' = 2
  /\ segi' = 0
  /\ UNCHANGED <<sruns, loc, scenes, clips, queue, cur, cutFailed,
                 detFailedTwice, clipsBefore>>

\* quickFixVideo throws: catch (e2), the file goes to 分割失败.
SplitFixFails ==
  /\ spc = "fixsplit"
  /\ UNCHANGED <<rvars, evars, xvars, cvars, jvars, dvars, bvars, avars, gvars>>
  /\ loc' = MoveTo(loc, cur, "splitfail")
  /\ spc' = "next"
  /\ cur' = 0
  /\ UNCHANGED <<sruns, scenes, clips, queue, pass, segi, cutFailed,
                 detFailedTwice, clipsBefore>>

\* One iteration of the loop of splitVideoToClipsWithAlias: splitOneSegment
\* returns true (the clip is pushed) or throws after all its variants (the
\* catch logs it and the loop goes on).
CutSegment(ok) ==
  /\ spc = "split"
  /\ UNCHANGED <<rvars, evars, xvars, cvars, jvars, dvars, bvars, avars, gvars>>
  /\ segi >= 1
  /\ IF ok
     THEN /\ clips' = [clips EXCEPT ![cur] = @ \cup {segi}]
          /\ UNCHANGED cutFailed
     ELSE /\ cutFailed' = [cutFailed EXCEPT ![cur] = TRUE]
          /\ UNCHANGED clips
  /\ IF segi < scenes[cur]
     THEN segi' = segi + 1 /\ UNCHANGED spc
     ELSE segi' = 0 /\ spc' = "finish"
  /\ UNCHANGED <<sruns, loc, scenes, queue, cur, pass, detFailedTwice, clipsBefore>>

\* doSplit has returned: the clips are re-encoded (a failure keeps the
\* clip as it is) and the file is moved to doneDir.
ReencodeAndMoveDone ==
  /\ spc = "finish"
  /\ UNCHANGED <<rvars, evars, xvars, cvars, jvars, dvars, bvars, avars, gvars>>
  /\ loc' = MoveTo(loc, cur, "done")
  /\ spc' = "next"
  /\ cur' = 0
  /\ UNCHANGED <<sruns, scenes, clips, queue, pass, segi, cutFailed,
                 detFailedTwice, clipsBefore>>

\* The ffmpeg process of getSceneChangeFrames never exits: the promise is
\* settled by 'close' or 'error' only and no timer is armed, so the await
\* of main does not return.
DetectHangs ==
  /\ spc \in {"detect", "redetect"}
  /\ UNCHANGED <<rvars, evars, xvars, cvars, jvars, dvars, bvars, avars, gvars>>
  /\ spc' = "hung"
  /\ UNCHANGED <<sruns, loc, scenes, clips, queue, cur, pass, segi,
                 cutFailed, detFailedTwice, clipsBefore>>

\* The script is stopped in the middle of a run: files stay where they are.
SplitInterrupted ==
  /\ spc # "idle"
  /\ UNCHANGED <<rvars, evars, xvars, cvars, jvars, dvars, bvars, avars, gvars>>
  /\ spc' = "idle"
  /\ queue' = <<>>
  /\ cur' = 0
  /\ pass' = 1
  /\ segi' = 0
  /\ UNCHANGED <<sruns, loc, scenes, clips, cutFailed, detFailedTwice, clipsBefore>>

SNext ==
  \/ StartSplitRun
  \/ SplitRunEnds
  \/ SkipExisting
  \/ BeginDetect
  \/ DetectOk
  \/ DetectFails
  \/ DetectFixOk
  \/ DetectFixFails
  \/ RedetectOk
  \/ RedetectFails
  \/ GetFpsOk
  \/ GetFpsFails
  \/ SplitFixOk
  \/ SplitFixFails
  \/ \E ok \in BOOLEAN : CutSegment(ok)
  \/ ReencodeAndMoveDone
  \/ DetectHangs
  \/ SplitInterrupted

\* The steps the script takes by itself once the process it awaits has
\* ended (starting the script and stopping it are the user's steps).
SProgress ==
  \/ SplitRunEnds
  \/ SkipExisting
  \/ BeginDetect
  \/ DetectOk
  \/ DetectFails
  \/ DetectFixOk
  \/ DetectFixFails
  \/ RedetectOk
  \/ RedetectFails
  \/ GetFpsOk
  \/ GetFpsFails
  \/ SplitFixOk
  \/ SplitFixFails
  \/ \E ok \in BOOLEAN : CutSegment(ok)
  \/ ReencodeAndMoveDone

InitSplit == SInit /\ RIdle /\ EInit /\ XIdle /\ CIdle /\ JIdle /\ DIdle /\ BIdle /\ AIdle /\ GIdle
SpecSplit == InitSplit /\ [][SNext]_vars
FairSpecSplit == InitSplit /\ [][SNext]_vars /\ WF_vars(SProgress)

\* ------------------------------------------------------------------------
\* Claims about the segmenter.

C9_LeavesPendingWhenComplete ==
  \A s \in Sources : loc[s] = "done" => clips[s] = 1..scenes[s]

\* C10: a source of which a segment could not be cut in its last split does
\* not leave the pending folder for any folder but split-failed.
C10_CutFailureEscalates ==
  \A s \in Sources :
    (cutFailed[s] /\ loc[s] \notin {"input", "todo"}) => loc[s] = "splitfail"

\* ------------------------------------------------------------------------
\* The executor of one cut: splitOneSegment with quickFixVideo
\* (scripts/alias_utils.js).

\* runFfmpegLogged / ffprobeJson: close with code 0 resolves, any other
\* code (a kill by the timer included) rejects.
ResolvesNever(code) == FALSE

Resolves(code) == code = 0

\* The code of a close that follows a signal: after p.kill('SIGKILL') of
\* the timer the close handler receives code = null.
null == -1

ExitCodes == {0, 1, null}

\* The file at the output path after an ffmpeg -y ... outPath has ended:
\* complete on code 0; on any other end the part written so far stays on
\* disk (left), or the process ended before it opened the output. Neither
\* the timer nor the close handler nor the callers remove it.
Written(code, left) ==
  IF code = 0 THEN "complete" ELSE IF left THEN "partial" ELSE outPath

\* variants: copy first under fastSplitCopy, then B, A, C under
\* fastSeekFirst, else A, B, C.
variants ==
  (IF fastSplitCopy THEN <<"copy">> ELSE <<>>)
    \o (IF fastSeekFirst THEN <<"B", "A", "C">> ELSE <<"A", "B", "C">>)

\* The variant that retries the whole list, variant C included.
fixedVariantsWithC == variants

\* fixedVariants: copy first under fastSplitCopy, then B, A under
\* fastSeekFirst, else A, B.
fixedVariants ==
  (IF fastSplitCopy THEN <<"copy">> ELSE <<>>)
    \o (IF fastSeekFirst THEN <<"B", "A">> ELSE <<"A", "B">>)

\* if (lastErr) throw lastErr; return false;
OutcomeSuccess(err) == "true"

Outcome(err) == IF err THEN "throw" ELSE "false"

\* The command the function is about to spawn at its position.
CurrentCommand ==
  CASE xpc = "variants" -> [stage |-> "variants", cmd |-> variants[xi], input |-> "original"]
    [] xpc = "remux" -> [stage |-> "quickfix", cmd |-> "remux", input |-> "original"]
    [] xpc = "remuxprobe" -> [stage |-> "quickfix", cmd |-> "ffprobe", input |-> "remux"]
    [] xpc = "reenc" -> [stage |-> "quickfix", cmd |-> "reencode", input |-> "original"]
    [] xpc = "reencprobe" -> [stage |-> "quickfix", cmd |-> "ffprobe", input |-> "reenc"]
    [] xpc = "fixed" -> [stage |-> "fixed", cmd |-> fixedVariants[xi], input |-> xfixed]

\* spawn('ffmpeg' | 'ffprobe', args) of the awaited call.
Launch ==
  /\ xpc # "done"
  /\ UNCHANGED <<rvars, evars, svars, cvars, jvars, dvars, bvars, avars, gvars>>
  /\ xrunning = {}
  /\ xrunning' = {CurrentCommand}
  /\ UNCHANGED <<xpc, fastSplitCopy, fastSeekFirst, xi, xlog, xfixed,
                 lastErr, xresult, outPath>>

\* The recorded end of the running process.
Logged(code) ==
  Append(xlog, [stage |-> CurrentCommand.stage, cmd |-> CurrentCommand.cmd,
                input |-> CurrentCommand.input, code |-> code])

\* for (i < variants.length): the variant ends; code 0 returns true,
\* otherwise lastErr = e and the next variant follows, or the quick fix.
VariantExit(code, left) ==
  /\ xpc = "variants"
  /\ UNCHANGED <<rvars, evars, svars, cvars, jvars, dvars, bvars, avars, gvars>>
  /\ xrunning # {}
  /\ xrunning' = {}
  /\ outPath' = Written(code, left)
  /\ xlog' = Logged(code)
  /\ IF Resolves(code)
     THEN /\ xresult' = "true"
          /\ xpc' = "done"
          /\ UNCHANGED <<xi, lastErr>>
     ELSE /\ lastErr' = TRUE
          /\ IF xi < Len(variants)
             THEN xi' = xi + 1 /\ xpc' = xpc
             ELSE xi' = 1 /\ xpc' = "remux"
          /\ UNCHANGED xresult
  /\ UNCHANGED <<fastSplitCopy, fastSeekFirst, xfixed>>

\* quickFixVideo: the remux ends; on failure the re-encode follows.
RemuxExit(code) ==
  /\ xpc = "remux"
  /\ UNCHANGED <<rvars, evars, svars, cvars, jvars, dvars, bvars, avars, gvars>>
  /\ xrunning # {}
  /\ xrunning' = {}
  /\ UNCHANGED outPath
  /\ xlog' = Logged(code)
  /\ xpc' = IF Resolves(code) THEN "remuxprobe" ELSE "reenc"
  /\ UNCHANGED <<fastSplitCopy, fastSeekFirst, xi, xfixed, lastErr, xresult>>

\* quickFixVideo: ffprobeJson(remuxPath) ends; on success remuxPath is
\* returned, on failure the re-encode follows.
RemuxProbeExit(code) ==
  /\ xpc = "remuxprobe"
  /\ UNCHANGED <<rvars, evars, svars, cvars, jvars, dvars, bvars, avars, gvars>>
  /\ xrunning # {}
  /\ xrunning' = {}
  /\ UNCHANGED outPath
  /\ xlog' = Logged(code)
  /\ IF Resolves(code)
     THEN xpc' = "fixed" /\ xfixed' = "remux"
     ELSE xpc' = "reenc" /\ UNCHANGED xfixed
  /\ UNCHANGED <<fastSplitCopy, fastSeekFirst, xi, lastErr, xresult>>

\* quickFixVideo: the re-encode ends; its failure is thrown to
\* splitOneSegment (catch (fixErr): lastErr = fixErr; throw lastErr).
ReencExit(code) ==
  /\ xpc = "reenc"
  /\ UNCHANGED <<rvars, evars, svars, cvars, jvars, dvars, bvars, avars, gvars>>
  /\ xrunning # {}
  /\ xrunning' = {}
  /\ UNCHANGED outPath
  /\ xlog' = Logged(code)
  /\ IF Resolves(code)
     THEN xpc' = "reencprobe" /\ UNCHANGED <<lastErr, xresult>>
     ELSE xpc' = "done" /\ lastErr' = TRUE /\ xresult' = Outcome(TRUE)
  /\ UNCHANGED <<fastSplitCopy, fastSeekFirst, xi, xfixed>>

\* quickFixVideo: ffprobeJson(reencPath) ends; on success reencPath is
\* returned, its failure is thrown to splitOneSegment.
ReencProbeExit(code) ==
  /\ xpc = "reencprobe"
  /\ UNCHANGED <<rvars, evars, svars, cvars, jvars, dvars, bvars, avars, gvars>>
  /\ xrunning # {}
  /\ xrunning' = {}
  /\ UNCHANGED outPath
  /\ xlog' = Logged(code)
  /\ IF Resolves(code)
     THEN xpc' = "fixed" /\ xfixed' = "reenc" /\ UNCHANGED <<lastErr, xresult>>
     ELSE xpc' = "done" /\ lastErr' = TRUE /\ xresult' = Outcome(TRUE)
          /\ UNCHANGED xfixed
  /\ UNCHANGED <<fastSplitCopy, fastSeekFirst, xi>>

\* for (j < fixedVariants.length): the variant on the fixed file ends; code
\* 0 returns true, otherwise lastErr = e2 and the next one follows; after
\* the last one: if (lastErr) throw lastErr; return false.
FixedExit(code, left) ==
  /\ xpc = "fixed"
  /\ UNCHANGED <<rvars, evars, svars, cvars, jvars, dvars, bvars, avars, gvars>>
  /\ xrunning # {}
  /\ xrunning' = {}
  /\ outPath' = Written(code, left)
  /\ xlog' = Logged(code)
  /\ IF Resolves(code)
     THEN /\ xresult' = "true"
          /\ xpc' = "done"
          /\ UNCHANGED <<xi, lastErr>>
     ELSE /\ lastErr' = TRUE
          /\ IF xi < Len(fixedVariants)
             THEN xi' = xi + 1 /\ xpc' = xpc /\ UNCHANGED xresult
             ELSE xi' = xi /\ xpc' = "done" /\ xresult' = Outcome(TRUE)
  /\ UNCHANGED <<fastSplitCopy, fastSeekFirst, xfixed>>

XNext ==
  \/ Launch
  \/ \E code \in ExitCodes, left \in BOOLEAN : VariantExit(code, left)
  \/ \E code \in ExitCodes : RemuxExit(code)
  \/ \E code \in ExitCodes : RemuxProbeExit(code)
  \/ \E code \in ExitCodes : ReencExit(code)
  \/ \E code \in ExitCodes : ReencProbeExit(code)
  \/ \E code \in ExitCodes, left \in BOOLEAN : FixedExit(code, left)

InitExec == XInit /\ RIdle /\ EInit /\ SIdle /\ CIdle /\ JIdle /\ DIdle /\ BIdle /\ AIdle /\ GIdle
SpecExec == InitExec /\ [][XNext]_vars

\* ------------------------------------------------------------------------
\* Claims about the executor.

\* The commands of a stage in the log, in the order they ended.
StageCmds(stage) ==
  LET sub == SelectSeq(xlog, LAMBDA r : r.stage = stage)
  IN [i \in 1..Len(sub) |-> sub[i].cmd]

IsPrefix(s, t) == Len(s) <= Len(t) /\ \A i \in 1..Len(s) : s[i] = t[i]

CutSucceeded(i) == xlog[i].stage \in {"variants", "fixed"} /\ xlog[i].code = 0

\* The variant list of the operation as configured.
ListedVariants ==
  (IF fastSplitCopy THEN <<"copy">> ELSE <<>>)
    \o (IF fastSeekFirst THEN <<"B", "A", "C">> ELSE <<"A", "B", "C">>)

\* C11: the variants run one at a time in list order, and after the first
\* variant that exits with code 0 nothing more is run: it is the last entry
\* of the log, nothing is running and the operation has returned true.
C11_FirstCleanExitWins ==
  /\ Cardinality(xrunning) <= 1
  /\ IsPrefix(StageCmds("variants"), ListedVariants)
  /\ \A i \in 1..Len(xlog) :
       CutSucceeded(i)
         => i = Len(xlog) /\ xrunning = {} /\ xpc = "done" /\ xresult = "true"

C11_Witness_SecondVariantWins ==
  /\ xpc = "done"
  /\ Len(xlog) = 2
  /\ xlog[1].code # 0
  /\ xlog[2].code = 0
  /\ xlog[2].stage = "variants"

AllFailed(stage) ==
  \A i \in 1..Len(xlog) : xlog[i].stage = stage => xlog[i].code # 0

QuickFixReturned == xfixed # "none"

\* C12 (as stated): after all variants have failed and the quick fix has
\* returned a file, a retry pass that fails throughout has run every
\* variant of the original list.
C12_RetriesFullList ==
  (xpc = "done" /\ QuickFixReturned /\ AllFailed("fixed"))
    => StageCmds("fixed") = ListedVariants

\* C12 (amended): the quick fix is started only after every variant of the
\* list has failed; the retry pass runs, once and in list order against the
\* file the quick fix returned, the variants of the list other than C, and
\* a retry pass that fails throughout has run all of these.
C12_RetriesListWithoutC ==
  LET retry == SelectSeq(ListedVariants, LAMBDA c : c # "C")
  IN /\ (\E i \in 1..Len(xlog) : xlog[i].stage # "variants")
          => StageCmds("variants") = ListedVariants /\ AllFailed("variants")
     /\ IsPrefix(StageCmds("fixed"), retry)
     /\ \A i \in 1..Len(xlog) :
          xlog[i].stage = "fixed" => QuickFixReturned /\ xlog[i].input = xfixed
     /\ (xpc = "done" /\ QuickFixReturned /\ AllFailed("fixed"))
          => StageCmds("fixed") = retry

C12_Witness_RetryPassFailed ==
  /\ xpc = "done"
  /\ QuickFixReturned
  /\ AllFailed("fixed")
  /\ fastSplitCopy

\* C13: one cut operation starts at most one process per variant of the
\* list, the four processes of one quick fix and one process per retried
\* variant, none of them twice, and when no cut has exited with code 0 at
\* the end the operation throws to its caller.
C13_BoundedAndSurfaced ==
  /\ Len(xlog) + Cardinality(xrunning) <= 2 * Len(ListedVariants) + 3
  /\ \A i, j \in 1..Len(xlog) :
       (xlog[i].stage = xlog[j].stage /\ xlog[i].cmd = xlog[j].cmd
          /\ xlog[i].input = xlog[j].input) => i = j
  /\ (xpc = "done" /\ \A i \in 1..Len(xlog) : ~CutSucceeded(i))
       => xresult = "throw"

C13_Witness_AllInvocationsFailed ==
  /\ xpc = "done"
  /\ xresult = "throw"
  /\ QuickFixReturned
  /\ Len(xlog) = 2 * Len(ListedVariants) + 3

\* C26: an invocation that exceeds its timeout is killed, the partial
\* output it wrote is deleted, and the invocation counts as failed. For the
\* cut: once the operation has ended with the kill of its last cut, it has
\* thrown and no partial file is left at the output path.
C26_TimedOutOutputDeleted ==
  (/\ xpc = "done"
   /\ xlog[Len(xlog)].stage \in {"variants", "fixed"}
   /\ xlog[Len(xlog)].code = null)
    => /\ xresult = "throw"
       /\ outPath # "partial"

\* C14: no step of the script waits for ever on a process that does not
\* exit: a wait on a hung process ends (the process is killed by its timer
\* and counts as failed).
C14_NoWaitOnHungProcess == (spc = "hung") ~> (spc # "hung")

\* ------------------------------------------------------------------------
\* The encode stages of one Assembly: the try block of composeVideosWithOpen
\* with concatClipsWithAudio (scripts/video_concat.js).

\* A stage promise rejects on a non-zero exit code, a spawn error or its
\* timer; only code 0 resolves.
RejectsNever(outcome) == FALSE

Rejects(outcome) == outcome # "ok"

\* Outcomes of the process of a stage; "timeout" for the stages that arm a
\* timer of ffmpegTimeout.
Outcomes == {"ok", "fail"}
TimedOutcomes == {"ok", "fail", "timeout"}

\* The stage that follows the concatenation and the rate change:
\* if (videoRates && videoRates[0] !== 1.0) ...; if (clips.cutLastTo) ...
AfterConcat == IF rateChange THEN "rate" ELSE IF tailTrim THEN "trim" ELSE "mux"
AfterRate == IF tailTrim THEN "trim" ELSE "mux"

\* const muxCodecArgs = ffmpegRemuxCopy ? ['-c', 'copy'] : [...]
muxCodecArgs == IF ffmpegRemuxCopy THEN "copy" ELSE "encode"

\* One awaited stage ends: resolved, the next stage follows; rejected, the
\* exception leaves concatClipsWithAudio for the catch of the caller.
\* written: the stage has created tempOutPath.
StageEnds(stage, outcome, nextStage, written) ==
  /\ cpc = stage
  /\ stagesRun' = Append(stagesRun, [stage |-> stage, outcome |-> outcome,
                                     codec |-> IF stage = "remux"
                                               THEN muxCodecArgs ELSE "-"])
  /\ cpc' = IF Rejects(outcome) THEN "catch" ELSE nextStage
  /\ tempOutFile' = (tempOutFile \/ written)
  /\ UNCHANGED <<rateChange, tailTrim, ffmpegRemuxCopy, deliverable,
                 assemblyResult>>

\* await concatClips(selectedClips, testTempPath, batchDir)
ConcatTest(outcome) ==
  /\ UNCHANGED <<rvars, evars, svars, xvars, jvars, dvars, bvars, avars, gvars>>
  /\ StageEnds("concattest", outcome, "concat", FALSE)

\* [1/4] await concatClips(clips, tempVideo, outputDir)
Concatenate(outcome) ==
  /\ UNCHANGED <<rvars, evars, svars, xvars, jvars, dvars, bvars, avars, gvars>>
  /\ StageEnds("concat", outcome, AfterConcat, FALSE)

\* setpts=(1/vRate)*PTS
RateChange(outcome) ==
  /\ UNCHANGED <<rvars, evars, svars, xvars, jvars, dvars, bvars, avars, gvars>>
  /\ StageEnds("rate", outcome, AfterRate, FALSE)

\* [2/4] -ss lastStart -t lastLen
TailTrim(outcome) ==
  /\ UNCHANGED <<rvars, evars, svars, xvars, jvars, dvars, bvars, avars, gvars>>
  /\ StageEnds("trim", outcome, "mux", FALSE)

\* [3/4] mux of the video with the audio, -shortest
Mux(outcome) ==
  /\ UNCHANGED <<rvars, evars, svars, xvars, jvars, dvars, bvars, avars, gvars>>
  /\ StageEnds("mux", outcome, "hardtrim", FALSE)

\* [4/4] -t audioDuration
HardTrim(outcome) ==
  /\ UNCHANGED <<rvars, evars, svars, xvars, jvars, dvars, bvars, avars, gvars>>
  /\ StageEnds("hardtrim", outcome, "remux", FALSE)

\* The re-mux into outPath of concatClipsWithAudio, which is tempOutPath of
\* the caller; a failed ffmpeg may leave the file (left), the timer removes
\* it.
Remux(outcome, left) ==
  /\ UNCHANGED <<rvars, evars, svars, xvars, jvars, dvars, bvars, avars, gvars>>
  /\ outcome = "timeout" => ~left
  /\ outcome = "ok" => left
  /\ StageEnds("remux", outcome, "rename", left)

\* fs.renameSync(tempOutPath, outPath): the Assembly is finalized under its
\* deliverable name.
\* renamed = FALSE: renameSync throws and the catch of the caller follows.
Finalize(renamed) ==
  /\ cpc = "rename"
  /\ UNCHANGED <<rvars, evars, svars, xvars, jvars, dvars, bvars, avars, gvars>>
  /\ tempOutFile' = (tempOutFile /\ ~renamed)
  /\ deliverable' = renamed
  /\ assemblyResult' = IF renamed THEN "finished" ELSE assemblyResult
  /\ cpc' = IF renamed THEN "done" ELSE "catch"
  /\ UNCHANGED <<rateChange, tailTrim, ffmpegRemuxCopy, stagesRun>>

\* catch (error): tempOutPath is removed if it exists (removed = FALSE: the
\* unlinkSync throws and is only logged), successCount++.
Abandon(removed) ==
  /\ cpc = "catch"
  /\ UNCHANGED <<rvars, evars, svars, xvars, jvars, dvars, bvars, avars, gvars>>
  /\ tempOutFile' = (tempOutFile /\ ~removed)
  /\ assemblyResult' = "abandoned"
  /\ cpc' = "done"
  /\ UNCHANGED <<rateChange, tailTrim, ffmpegRemuxCopy, stagesRun,
                 deliverable>>

CNext ==
  \/ \E o \in Outcomes : ConcatTest(o)
  \/ \E o \in Outcomes : Concatenate(o)
  \/ \E o \in Outcomes : RateChange(o)
  \/ \E o \in Outcomes : TailTrim(o)
  \/ \E o \in TimedOutcomes : Mux(o)
  \/ \E o \in TimedOutcomes : HardTrim(o)
  \/ \E o \in TimedOutcomes, left \in BOOLEAN : Remux(o, left)
  \/ \E renamed \in BOOLEAN : Finalize(renamed)
  \/ \E removed \in BOOLEAN : Abandon(removed)

InitEncode ==
  CInit /\ RIdle /\ EInit /\ SIdle /\ XIdle /\ JIdle /\ DIdle /\ BIdle /\ AIdle /\ GIdle
SpecEncode == InitEncode /\ [][CNext]_vars

\* ------------------------------------------------------------------------
\* Claims about the encode stages.

\* The stages of an Assembly in their order: the test concatenation, then
\* concatenate, rate change (if a rate is applied), tail-trim (if a cut is
\* set), mux, hard-trim, re-mux.
StageOrder ==
  <<"concattest", "concat">>
    \o (IF rateChange THEN <<"rate">> ELSE <<>>)
    \o (IF tailTrim THEN <<"trim">> ELSE <<>>)
    \o <<"mux", "hardtrim", "remux">>

StageFailed(i) == stagesRun[i].outcome # "ok"

\* C15: the stages that have run are, in order and each once, an initial
\* part of the stage order; a failed stage is the last one that ran; the
\* deliverable name exists only after all stages succeeded, and an Assembly
\* with a failed stage ends abandoned with no file under the deliverable
\* name.
C15_StagesInOrderAbortOnFailure ==
  /\ Len(stagesRun) <= Len(StageOrder)
  /\ \A i \in 1..Len(stagesRun) : stagesRun[i].stage = StageOrder[i]
  /\ \A i \in 1..Len(stagesRun) : StageFailed(i) => i = Len(stagesRun)
  /\ deliverable
       => /\ Len(stagesRun) = Len(StageOrder)
          /\ \A i \in 1..Len(stagesRun) : ~StageFailed(i)
  /\ (cpc = "done" /\ \E i \in 1..Len(stagesRun) : StageFailed(i))
       => assemblyResult = "abandoned" /\ ~deliverable

C15_Witness_MuxFailedAbandoned ==
  /\ cpc = "done"
  /\ assemblyResult = "abandoned"
  /\ stagesRun[Len(stagesRun)].stage = "mux"
  /\ rateChange

\* ------------------------------------------------------------------------
\* One attempt of the retry loop as a function of its inputs: the shuffled
\* indices, the durations of the pool and the duration of the audio
\* (composeVideosWithOpen, the body of the do ... while).

NoVerdict == [kind |-> "unjudged", rate |-> NoRate, cut |-> 0]
NoSelection == [clips |-> <<>>, dur |-> 0]
NoHandOver == [clips |-> <<>>, rate |-> NoRate, cut |-> 0]

\* The clips of openDir assigned to the target (openAssign[successCount]):
\* none, or openClipsCount = 1 clip; 0 stands for a file of openDir.
OpenAssigns == {<<>>, <<0>>}

\* open.concat(selectedClips): a new array of the elements; the property
\* cutLastTo set on tmpClips is not an element and is not carried over.
concat(open, sel) == [clips |-> open \o sel.clips, cutLastTo |-> 0]

\* if (openAssign.length > 0 && openAssign[successCount]): the open clips
\* are put in front; otherwise selectedClips stays the array it was.
WithOpen(open, sel) == IF open # <<>> THEN concat(open, sel) ELSE sel

\* An accepted attempt is handed to concatClipsWithAudio(selectedClips,
\* ..., videoRates), which reads clips.cutLastTo.
JHandOver(open) ==
  /\ jpc = "judged"
  /\ jverdict.kind = "found"
  /\ LET sel == WithOpen(open, [clips |-> jtmp.clips,
                                cutLastTo |-> jverdict.cut])
     IN jhanded' = [clips |-> sel.clips, rate |-> jverdict.rate,
                    cut |-> sel.cutLastTo]
  /\ jpc' = "handed"
  /\ UNCHANGED <<jA, jidxs, jtmp, jverdict>>
  /\ UNCHANGED <<rvars, evars, svars, xvars, cvars, dvars, bvars, avars, gvars>>

\* for (let idx of idxs) { ... }
JAccumulate ==
  /\ jpc = "shuffled"
  /\ jtmp' = Accumulate(jidxs, 1, NoSelection, jA)
  /\ jpc' = "accumulated"
  /\ UNCHANGED <<jA, jidxs, jverdict, jhanded>>
  /\ UNCHANGED <<rvars, evars, svars, xvars, cvars, dvars, bvars, avars, gvars>>

\* let diff = tmpDur - audioDuration; if (diff < -maxAVDiff) ... else ...
JJudge ==
  /\ jpc = "accumulated"
  /\ jverdict' = Judge(jtmp, jA)
  /\ jpc' = "judged"
  /\ UNCHANGED <<jA, jidxs, jtmp, jhanded>>
  /\ UNCHANGED <<rvars, evars, svars, xvars, cvars, dvars, bvars, avars, gvars>>

\* The Reconciler variables other than the pool, before the first target.
RRest ==
  /\ rpc = "head"
  /\ musicStartIdx = 0
  /\ successCount = 0
  /\ usedOrders = {}
  /\ tryCount = 0
  /\ found = FALSE
  /\ selectedClips = [clips |-> <<>>, cutLastTo |-> 0]
  /\ selectedDur = 0
  /\ order = Undefined
  /\ videoRates = Undefined
  /\ assembly = NoAssembly
  /\ handed = <<>>
  /\ outcomes = <<>>
  /\ tempOutPath = FALSE
  /\ skippedNow = FALSE

\* The scenario: an audio of 42.0 s and a pool of nine segments of 5 s each
\* (durations in tenths of a second, as maxAVDiff = 2).
ScenarioAudio == 420
ScenarioClip == 50
ScenarioSize == 9
ScenarioPool == [i \in 1..ScenarioSize |-> ScenarioClip]

\* Results of shuffle over the nine indices: the rotations of the identity,
\* the rotations of its reverse, and the identity with two indices swapped.
Rotation(k) == [i \in 1..ScenarioSize |-> ((i + k - 1) % ScenarioSize) + 1]
Reversed(p) == [i \in 1..ScenarioSize |-> p[ScenarioSize + 1 - i]]
Swapped(a, b) ==
  [i \in 1..ScenarioSize |-> IF i = a THEN b ELSE IF i = b THEN a ELSE i]
ScenarioOrders ==
  {Rotation(k) : k \in 0..(ScenarioSize - 1)}
    \cup {Reversed(Rotation(k)) : k \in 0..(ScenarioSize - 1)}
    \cup {Swapped(a, b) : a, b \in 1..ScenarioSize}

InitScenario ==
  /\ allClips = ScenarioPool
  /\ RRest /\ EInit /\ SIdle /\ XIdle /\ CIdle /\ DIdle /\ BIdle /\ AIdle /\ GIdle
  /\ jpc = "shuffled"
  /\ jA = ScenarioAudio
  /\ jidxs \in ScenarioOrders
  /\ jtmp = NoSelection
  /\ jverdict = NoVerdict
  /\ jhanded = NoHandOver

ScenarioNext == JAccumulate \/ JJudge

SpecScenario == InitScenario /\ [][ScenarioNext]_vars

\* The judging block on any selection: pools of three clips, every ordered
\* selection of distinct clips of the pool with its total duration.
JudgePools == {<<150, 170, 130>>, <<290, 30, 16>>}
JudgeAudios == {140, 300, 310, 330}
MaxSelection == 3

RECURSIVE SumDur(_, _)
SumDur(pool, sel) ==
  IF sel = <<>> THEN 0 ELSE pool[Head(sel)] + SumDur(pool, Tail(sel))

Selections(pool) ==
  UNION {{s \in [1..n -> 1..Len(pool)] :
            \A i, j \in 1..n : s[i] = s[j] => i = j} : n \in 1..MaxSelection}

InitJudge ==
  /\ allClips \in JudgePools
  /\ RRest /\ EInit /\ SIdle /\ XIdle /\ CIdle /\ DIdle /\ BIdle /\ AIdle /\ GIdle
  /\ jpc = "accumulated"
  /\ jA \in JudgeAudios
  /\ jidxs = <<>>
  /\ \E sel \in Selections(allClips) :
       jtmp = [clips |-> sel, dur |-> SumDur(allClips, sel)]
  /\ jverdict = NoVerdict
  /\ jhanded = NoHandOver

JudgeNext == JJudge \/ \E open \in OpenAssigns : JHandOver(open)

SpecJudge == InitJudge /\ [][JudgeNext]_vars

\* ------------------------------------------------------------------------
\* Claims about one attempt.

IsRate(rate, num, den) == rate[2] # 0 /\ rate[1] * den = num * rate[2]

\* C16 (as stated): in the scenario every accepted outcome is 8 segments
\* (40.0 s) with rate 1.05, or 9 segments (45.0 s) with rate 0.933 if that
\* rate is in bounds, else 9 segments with the last one trimmed by 3 s if
\* the remainder is at least minClipDuration.
C16_ScenarioAsStated ==
  (jpc = "judged" /\ jverdict.kind = "found")
    => \/ /\ Len(jtmp.clips) = 8
          /\ jtmp.dur = 400
          /\ IsRate(jverdict.rate, 105, 100)
       \/ /\ Len(jtmp.clips) = 9
          /\ jtmp.dur = 450
          /\ IF RateInBounds(ScenarioAudio, 450)
             THEN IsRate(jverdict.rate, ScenarioAudio, 450) /\ jverdict.cut = 0
             ELSE /\ jverdict.cut = ScenarioClip - 30
                  /\ jverdict.cut >= minClipDuration

\* C16 (amended): in the scenario every attempt is accepted with 8 segments
\* (40.0 s), no trim, and the rate T / A = 40 / 42 (about 0.952); 9 segments
\* are never selected.
C16_ScenarioEightAtRateTOverA ==
  jpc = "judged"
    => /\ jverdict.kind = "found"
       /\ Len(jtmp.clips) = 8
       /\ jtmp.dur = 8 * ScenarioClip
       /\ IsRate(jverdict.rate, 8 * ScenarioClip, ScenarioAudio)
       /\ ~IsRate(jverdict.rate, 105, 100)
       /\ jverdict.cut = 0

C16_Witness_ScenarioJudged ==
  /\ jpc = "judged"
  /\ allClips = ScenarioPool
  /\ jA = ScenarioAudio
  /\ jverdict.kind = "found"
  /\ jidxs[1] = 9

\* C17: a verdict that trims the tail is given only when the slow-down rate
\* A / T of the selection lies outside [minVideoRate, maxVideoRate] and the
\* trimmed last clip keeps at least minClipDuration; the last clip is cut by
\* exactly diff = T - A and the rate of the verdict is 1.0.
C17_TrimOnlyWithoutInBoundsRate ==
  (jpc = "judged" /\ jverdict.cut # 0)
    => LET T == jtmp.dur
           lastClipDur == allClips[jtmp.clips[Len(jtmp.clips)]]
       IN /\ jverdict.kind = "found"
          /\ T - jA > maxAVDiff
          /\ \/ jA * RateDen < minVideoRateNum * T
             \/ jA * RateDen > maxVideoRateNum * T
          /\ jverdict.cut = lastClipDur - (T - jA)
          /\ jverdict.cut >= minClipDuration
          /\ jverdict.rate = One

C17_Witness_TailTrimmed ==
  /\ jpc = "judged"
  /\ jverdict.kind = "found"
  /\ jverdict.cut # 0
  /\ jverdict.rate = One

\* C33: the open clips put in front of an accepted selection leave the
\* plan as it was: the selection follows them unchanged and the accepted
\* rate and tail trim are the ones passed to the encoding.
C33_PlanIntactAfterIntro ==
  jpc = "handed" =>
    /\ \E open \in OpenAssigns : jhanded.clips = open \o jtmp.clips
    /\ jhanded.rate = jverdict.rate
    /\ jhanded.cut = jverdict.cut

\* ------------------------------------------------------------------------
\* Claims about the direct mode and the fallback (enhancement, SpecEnh).

\* The steps of the frame-level fallback.
InFallback ==
  epc \in {"tmp", "extract", "audio", "load", "work", "reassemble", "cleanup"}

\* C21: the frame-level fallback is entered only after the direct video
\* mode has failed with the recognized output path message; another failure
\* of the direct mode starts no frame extraction.
C21_FallbackOnlyOnOutputPath ==
  InFallback => directResult = "outputpath"

\* C22: while the workers of a job run, the set of frames marked done in
\* the checkpoint file only grows: a frame persisted as done is not absent
\* from a later state of the file.
C22_PersistedCheckpointGrows ==
  [][(epc = "work" /\ epc' = "work")
       => dirs[tmpDir].checkpoint \subseteq dirs'[tmpDir].checkpoint]_vars

\* C23: the temporary directory of a job, with its frames and its
\* checkpoint, is deleted only after the reassembly and the audio merge
\* have succeeded; when one of them fails the checkpoint stays.
C23_TmpDirDeletedOnlyAfterSuccess ==
  [][\A t \in Times :
       (dirs[t].exists /\ ~dirs'[t].exists) => outFrames # -1]_vars

\* ------------------------------------------------------------------------
\* Claim about frames the upscaler fails on (enhancement, SpecEnh).

C31_NeverResplit ==
  /\ [](cur # 0 => clipsBefore[cur] = {})
  /\ [][\A s \in Sources : clips'[s] # clips[s] => clipsBefore[s] = {}]_vars

C31_Witness_SkippedInLaterRun ==
  \E s \in Sources :
    /\ sruns = 2
    /\ clipsBefore[s] # {}
    /\ clips[s] = clipsBefore[s]
    /\ Cardinality(clips[s]) < scenes[s]
    /\ ~cutFailed[s]
    /\ loc[s] = "done"

parseFloat(tok) ==
  CASE tok = "0" -> 0
    [] tok = "0.0" -> 0
    [] tok = "1.5" -> 15
    [] tok = "3" -> 30
    [] tok = "4.5" -> 45

\* while ((match = regex.exec(stderr)) !== null) times.push(parseFloat(...))
ParseTimes(toks) == [i \in 1..Len(toks) |-> parseFloat(toks[i])]

\* if (times[0] !== 0) times.unshift(0)
WithLeadingZero(ts) ==
  IF ts # <<>> /\ ts[1] = 0 THEN ts ELSE <<0>> \o ts

\* ffmpeg.on('close') with code 0: resolve(times)
DetectResolves ==
  /\ dpc = "running"
  /\ times' = WithLeadingZero(ParseTimes(reported))
  /\ dpc' = "resolved"
  /\ UNCHANGED reported
  /\ UNCHANGED <<rvars, evars, svars, xvars, cvars, jvars, bvars, avars, gvars>>

\* ffmpeg.on('close') with code !== 0, or ffmpeg.on('error'): reject
DetectRejects ==
  /\ dpc = "running"
  /\ dpc' = "rejected"
  /\ UNCHANGED <<reported, times>>
  /\ UNCHANGED <<rvars, evars, svars, xvars, cvars, jvars, bvars, avars, gvars>>

DNext == DetectResolves \/ DetectRejects

InitDetect == DInit /\ RIdle /\ EInit /\ SIdle /\ XIdle /\ CIdle /\ JIdle /\ BIdle /\ AIdle /\ GIdle
SpecDetect == InitDetect /\ [][DNext]_vars

\* ------------------------------------------------------------------------
\* Claims about the detection result.

\* C18: every boundary list that the detection resolves with starts at 0
\* and is non-decreasing, whatever the detector has reported.
C18_BoundariesFromZeroNonDecreasing ==
  dpc = "resolved"
    => /\ times[1] = 0
       /\ \A i \in 1..(Len(times) - 1) : Le(times[i], times[i + 1])

\* ------------------------------------------------------------------------
\* Runs of the batch over the state files of outputDir: every iteration of
\* the while loop of composeVideosWithOpen that counts its target is one
\* step (an iteration that skips its target without counting it assigns
\* the same audio again and changes no file).
MaxBatchRuns == 2

\* lastMusicIdx = (lastData.lastMusicIdx || 0) + 1 if the file exists and
\* names the same inputDir and musicDir, else 0.
lastMusicIdx(json) == IF json = <<>> THEN 0 ELSE json[1] + 1

\* An index that points one track too far.
newLastIdxNext(start, count) == (start + count) % Len(musicFiles)

\* newLastIdx = (musicStartIdx + successCount - 1 + n) % n
newLastIdx(start, count) ==
  (start + count - 1 + Len(musicFiles)) % Len(musicFiles)

\* getFileMaxVideoIndex: the largest index among the files under rootDir
\* that match <prefix>_<date>_<digits>.mp4, 0 if there is none.
getFileMaxVideoIndex ==
  IF outputFiles = {} THEN 0
  ELSE CHOOSE i \in outputFiles : \A j \in outputFiles : j <= i

\* readLastIndex: the value stored for the key, 0 if there is none.
readLastIndex == lastVideoIndexJson

\* An index computed from the files alone.
getNextVideoIndexFromFiles(fileMax, stateMax) == fileMax + 1

\* getNextVideoIndex: Math.max(fileMax, stateMax) + 1
getNextVideoIndex(fileMax, stateMax) ==
  (IF fileMax > stateMax THEN fileMax ELSE stateMax) + 1

\* writeLastIndex: the stored value is replaced only by a larger one.
writeLastIndex(i) == IF i > lastVideoIndexJson THEN i ELSE lastVideoIndexJson

\* The variables of composeVideosWithOpen these steps do not look at.
BatchRest ==
  <<rpc, allClips, usedOrders, tryCount, found, selectedClips, selectedDur,
    order, videoRates, assembly, handed, outcomes, tempOutPath, skippedNow>>

\* composeVideosWithOpen(): the rotation file is read and the loop entered.
StartRun ==
  /\ bpc = "exited"
  /\ UNCHANGED <<evars, svars, xvars, cvars, jvars, dvars, avars, gvars>>
  /\ bruns < MaxBatchRuns
  /\ bruns' = bruns + 1
  /\ musicStartIdx' = lastMusicIdx(lastMusicIdxJson) % Len(musicFiles)
  /\ successCount' = 0
  /\ bpc' = "loop"
  /\ UNCHANGED <<BatchRest, lastMusicIdxJson, assigned, interrupted,
                 outputFiles, lastVideoIndexJson, finalized>>

\* An iteration that ends in fs.renameSync(tempOutPath, outPath),
\* writeLastIndex and successCount++.
TargetFinalized ==
  /\ bpc = "loop"
  /\ UNCHANGED <<evars, svars, xvars, cvars, jvars, dvars, avars, gvars>>
  /\ successCount < numNewVideos
  /\ LET fileMax == getFileMaxVideoIndex
         stateMax == readLastIndex
         videoIdx == getNextVideoIndex(fileMax, stateMax)
     IN /\ outputFiles' = outputFiles \cup {videoIdx}
        /\ lastVideoIndexJson' = writeLastIndex(videoIdx)
        /\ finalized' = Append(finalized, [idx |-> videoIdx,
                                            fileMax |-> fileMax,
                                            stateMax |-> stateMax])
  /\ assigned' = Append(assigned, audioIdx)
  /\ successCount' = successCount + 1
  /\ UNCHANGED <<BatchRest, musicStartIdx, bpc, bruns, lastMusicIdxJson,
                 interrupted>>

\* An iteration that counts its target without an output file: the audio
\* file does not exist, or the encoding throws (catch: successCount++).
TargetNotFinalized ==
  /\ bpc = "loop"
  /\ UNCHANGED <<evars, svars, xvars, cvars, jvars, dvars, avars, gvars>>
  /\ successCount < numNewVideos
  /\ assigned' = Append(assigned, audioIdx)
  /\ successCount' = successCount + 1
  /\ UNCHANGED <<BatchRest, musicStartIdx, bpc, bruns, lastMusicIdxJson,
                 interrupted, outputFiles, lastVideoIndexJson, finalized>>

\* After the loop: last_music_idx.json is written with newLastIdx.
EndOfBatch ==
  /\ bpc = "loop"
  /\ UNCHANGED <<evars, svars, xvars, cvars, jvars, dvars, avars, gvars>>
  /\ ~(successCount < numNewVideos)
  /\ lastMusicIdxJson' = <<newLastIdx(musicStartIdx, successCount)>>
  /\ bpc' = "exited"
  /\ UNCHANGED <<BatchRest, musicStartIdx, successCount, bruns, assigned,
                 interrupted, outputFiles, lastVideoIndexJson, finalized>>

\* The process ends inside the loop (it is stopped, or an await outside the
\* try of the iteration rejects): nothing after the loop is executed.
EndInsideLoop ==
  /\ bpc = "loop"
  /\ UNCHANGED <<evars, svars, xvars, cvars, jvars, dvars, avars, gvars>>
  /\ bpc' = "exited"
  /\ interrupted' = TRUE
  /\ UNCHANGED <<BatchRest, musicStartIdx, successCount, bruns,
                 lastMusicIdxJson, assigned, outputFiles, lastVideoIndexJson,
                 finalized>>

\* The user deletes an output file.
DeleteOutput(i) ==
  /\ i \in outputFiles
  /\ UNCHANGED <<rvars, evars, svars, xvars, cvars, jvars, dvars, avars, gvars>>
  /\ outputFiles' = outputFiles \ {i}
  /\ UNCHANGED <<bpc, bruns, lastMusicIdxJson, assigned, interrupted,
                 lastVideoIndexJson, finalized>>

BNext ==
  \/ StartRun
  \/ TargetFinalized
  \/ TargetNotFinalized
  \/ EndOfBatch
  \/ EndInsideLoop
  \/ \E i \in outputFiles : DeleteOutput(i)

InitBatch ==
  BIdle /\ RIdle /\ EInit /\ SIdle /\ XIdle /\ CIdle /\ JIdle /\ DIdle /\ AIdle /\ GIdle
SpecBatch == InitBatch /\ [][BNext]_vars

\* ------------------------------------------------------------------------
\* Claims about the state files of outputDir (SpecBatch).

\* The tracks (positions 1..n of the sorted listing) are assigned one after
\* the other, from the first one, with wrap-around, over all runs.
InRotation(seq) ==
  /\ seq # <<>> => seq[1] = 1
  /\ \A k \in 1..(Len(seq) - 1) : seq[k + 1] = (seq[k] % Len(musicFiles)) + 1

MaxAliasRuns == 3

\* The videos that can be in inputDir, in sorted order.
FileNames == <<"v1.mov", "v1.mp4", "v2.mp4">>

\* path.parse(file).name
baseName(file) ==
  CASE file = "v1.mov" -> "v1"
    [] file = "v1.mp4" -> "v1"
    [] file = "v2.mp4" -> "v2"

\* genShortAliasArr(i + 1)[i]: a, b, c, ... (0-based i).
genShortAlias(i) == <<"a", "b", "c", "d", "e", "f">>[i + 1]

\* videoFiles: the sorted listing of inputDir.
videoFiles == SelectSeq(FileNames, LAMBDA f : f \in inputDir)

\* usedShorts of a map: the last component of every key.
usedShorts(aliasMap) == {en[1] : en \in aliasMap}

\* while (true): the first short alias from shortIdx on that is not used.
RECURSIVE FreeShortIdx(_, _)
FreeShortIdx(aliasMap, shortIdx) ==
  IF genShortAlias(shortIdx) \notin usedShorts(aliasMap) THEN shortIdx
  ELSE FreeShortIdx(aliasMap, shortIdx + 1)

\* for (const file of videoFiles): a file whose base name is a value of the
\* map keeps its entry, any other file gets the next free short alias.
RECURSIVE AddAliases(_, _, _)
AddAliases(files, aliasMap, shortIdx) ==
  IF files = <<>> THEN aliasMap
  ELSE IF \E en \in aliasMap : en[2] = baseName(Head(files))
  THEN AddAliases(Tail(files), aliasMap, shortIdx)
  ELSE LET i == FreeShortIdx(aliasMap, shortIdx)
       IN AddAliases(Tail(files),
                     aliasMap \cup {<<genShortAlias(i), baseName(Head(files))>>},
                     i + 1)

\* nameToAlias[basename] of the inverted map; "undefined" without an entry.
nameToAlias(aliasMap, name) ==
  IF \E en \in aliasMap : en[2] = name
  THEN (CHOOSE en \in aliasMap : en[2] = name)[1]
  ELSE "undefined"

\* checkExistingClips(alias): a file <alias>_*.mp4 lies in clipsDir.
aliasHasClips(alias) == \E sg \in segs : sg[1] = alias

\* The map the function starts from: {} if the file does not exist or
\* fs.readJson throws (catch: aliasMap = {}), else the content of the file.
ReadAliasMap(readThrows) == IF readThrows THEN {} ELSE aliasMapJson

\* generateOrUpdateAliasMap(inputDir, aliasMapPath): read, extend, write.
\* readThrows: the file exists and cannot be read or parsed.
GenerateOrUpdateAliasMap(readThrows) ==
  /\ aliasRuns < MaxAliasRuns
  /\ UNCHANGED <<rvars, evars, svars, xvars, cvars, jvars, dvars, bvars, gvars>>
  /\ readThrows => aliasRuns > 0
  /\ aliasMapJson' = AddAliases(videoFiles, ReadAliasMap(readThrows), 0)
  /\ aliasRuns' = aliasRuns + 1
  /\ todo' = videoFiles
  /\ UNCHANGED <<inputDir, segs, skipped>>

\* A video is put into inputDir.
AddVideo(f) ==
  /\ f \notin inputDir
  /\ UNCHANGED <<rvars, evars, svars, xvars, cvars, jvars, dvars, bvars, gvars>>
  /\ inputDir' = inputDir \cup {f}
  /\ UNCHANGED <<aliasMapJson, aliasRuns, todo, segs, skipped>>

\* video_split.js handles the next listed video f and moves it out of
\* inputDir: as already split if a segment file of its alias exists, else
\* after the detection and the cut (cut: segment files were written).
MoveVideo(f, cut) ==
  /\ todo # <<>>
  /\ f = Head(todo)
  /\ UNCHANGED <<rvars, evars, svars, xvars, cvars, jvars, dvars, bvars, gvars>>
  /\ LET alias == nameToAlias(aliasMapJson, baseName(f)) IN
     IF alias # "undefined" /\ aliasHasClips(alias)
     THEN /\ skipped' = skipped \cup {<<f, alias>>}
          /\ segs' = segs
     ELSE /\ segs' = IF cut THEN segs \cup {<<alias, f>>} ELSE segs
          /\ skipped' = skipped
  /\ todo' = Tail(todo)
  /\ inputDir' = inputDir \ {f}
  /\ UNCHANGED <<aliasMapJson, aliasRuns>>

ANext ==
  \/ \E readThrows \in BOOLEAN : GenerateOrUpdateAliasMap(readThrows)
  \/ \E i \in 1..Len(FileNames) : AddVideo(FileNames[i])
  \/ \E i \in 1..Len(FileNames), cut \in BOOLEAN : MoveVideo(FileNames[i], cut)

InitAlias ==
  AIdle /\ RIdle /\ EInit /\ SIdle /\ XIdle /\ CIdle /\ JIdle /\ DIdle /\ BIdle /\ GIdle
SpecAlias == InitAlias /\ [][ANext]_vars

\* ------------------------------------------------------------------------
\* Claim about the alias map (SpecAlias).

\* C30: a call of generateOrUpdateAliasMap never removes an entry of the
\* alias map and never maps an existing alias to another base name,
\* whatever the state of the map file it finds.
C30_AliasMapAppendOnly ==
  [][/\ aliasMapJson \subseteq aliasMapJson'
     /\ \A old \in aliasMapJson, new \in aliasMapJson' :
          old[1] = new[1] => old[2] = new[2]]_vars

\* C38: the videos listed for one run have pairwise distinct aliases, the
\* segment files of two videos never carry the same alias, and a video is
\* moved away as already split only if segment files cut from it exist
\* under its alias.
C38_DistinctAliasesNoForeignSkip ==
  /\ \A i, j \in 1..Len(todo) :
       i # j => nameToAlias(aliasMapJson, baseName(todo[i]))
                  # nameToAlias(aliasMapJson, baseName(todo[j]))
  /\ \A s1, s2 \in segs : s1[1] = s2[1] => s1[2] = s2[2]
  /\ \A sk \in skipped : <<sk[2], sk[1]>> \in segs

\* ------------------------------------------------------------------------
\* The GUI main process: the handlers run-video-split, run-video-concat and
\* stop-current-task, the close and error events of the task subprocess,
\* and the task with the external tool process it runs.
MaxTasks == 2
MaxUnits == 2
TaskTypes == {"split", "concat"}

\* spawn('node', [script]): a ChildProcess; the spawn may fail (the error
\* event follows).
NewTask(type, spawned) ==
  [type |-> type, proc |-> IF spawned THEN "alive" ELSE "spawnfailed",
   signalled |-> FALSE, tool |-> "none", units |-> 0]

\* run-video-split / run-video-concat: refused while currentTask is set,
\* otherwise the script is spawned and recorded.
RunTask(type, spawned) ==
  /\ UNCHANGED <<rvars, evars, svars, xvars, cvars, jvars, dvars, bvars, avars>>
  /\ Len(tasks) < MaxTasks
  /\ currentTask = 0
  /\ tasks' = Append(tasks, NewTask(type, spawned))
  /\ currentTask' = Len(tasks) + 1
  /\ currentTaskType' = type

\* stop-current-task: currentTask.kill('SIGTERM'), then both records are
\* set to null at once.
StopCurrentTask ==
  /\ UNCHANGED <<rvars, evars, svars, xvars, cvars, jvars, dvars, bvars, avars>>
  /\ currentTask # 0
  /\ tasks' = [tasks EXCEPT ![currentTask].signalled = TRUE]
  /\ currentTask' = 0
  /\ currentTaskType' = "null"

\* The task script spawns ffmpeg or ffprobe for its next work unit.
TaskStartsTool(i) ==
  /\ UNCHANGED <<rvars, evars, svars, xvars, cvars, jvars, dvars, bvars, avars>>
  /\ tasks[i].proc = "alive"
  /\ tasks[i].tool = "none"
  /\ tasks[i].units < MaxUnits
  /\ tasks' = [tasks EXCEPT ![i].tool = "running", ![i].units = @ + 1]
  /\ UNCHANGED <<currentTask, currentTaskType>>

\* The tool process ends by itself (also after its task has gone: it was
\* not signalled).
ToolExits(i) ==
  /\ UNCHANGED <<rvars, evars, svars, xvars, cvars, jvars, dvars, bvars, avars>>
  /\ tasks[i].tool = "running"
  /\ tasks' = [tasks EXCEPT ![i].tool = "none"]
  /\ UNCHANGED <<currentTask, currentTaskType>>

\* The tool process stops making progress (a detection without timer).
ToolHangs(i) ==
  /\ UNCHANGED <<rvars, evars, svars, xvars, cvars, jvars, dvars, bvars, avars>>
  /\ tasks[i].tool = "running"
  /\ tasks' = [tasks EXCEPT ![i].tool = "hung"]
  /\ UNCHANGED <<currentTask, currentTaskType>>

\* The task process ends: by itself between two work units, or by SIGTERM
\* (the scripts install no handler). Its tool process is not signalled.
TaskExits(i) ==
  /\ UNCHANGED <<rvars, evars, svars, xvars, cvars, jvars, dvars, bvars, avars>>
  /\ tasks[i].proc = "alive"
  /\ tasks[i].signalled \/ tasks[i].tool = "none"
  /\ tasks' = [tasks EXCEPT ![i].proc = "exited"]
  /\ UNCHANGED <<currentTask, currentTaskType>>

\* currentTask.on('close') of task i, or on('error') of a task that could
\* not be spawned: currentTask = null; currentTaskType = null.
TaskClose(i) ==
  /\ UNCHANGED <<rvars, evars, svars, xvars, cvars, jvars, dvars, bvars, avars>>
  /\ tasks[i].proc \in {"exited", "spawnfailed"}
  /\ tasks' = [tasks EXCEPT ![i].proc = "closed"]
  /\ currentTask' = 0
  /\ currentTaskType' = "null"

GNext ==
  \/ \E type \in TaskTypes, spawned \in BOOLEAN : RunTask(type, spawned)
  \/ StopCurrentTask
  \/ \E i \in 1..Len(tasks) : TaskStartsTool(i)
  \/ \E i \in 1..Len(tasks) : ToolExits(i)
  \/ \E i \in 1..Len(tasks) : ToolHangs(i)
  \/ \E i \in 1..Len(tasks) : TaskExits(i)
  \/ \E i \in 1..Len(tasks) : TaskClose(i)

InitGui ==
  GIdle /\ RIdle /\ EInit /\ SIdle /\ XIdle /\ CIdle /\ JIdle /\ DIdle /\ BIdle /\ AIdle
SpecGui == InitGui /\ [][GNext]_vars

\* A signal that was sent is delivered, a tool process that has not hung
\* ends, and the events of a process that has ended are delivered.
FairSpecGui ==
  /\ InitGui /\ [][GNext]_vars
  /\ \A i \in 1..MaxTasks :
       /\ WF_vars(i <= Len(tasks) /\ TaskExits(i))
       /\ WF_vars(i <= Len(tasks) /\ ToolExits(i))
       /\ WF_vars(i <= Len(tasks) /\ TaskClose(i))

\* ------------------------------------------------------------------------
\* Claims about the GUI main process.

\* C32: after stop-current-task has been handled for a running task, the
\* task process and the external tool process it was running eventually
\* have both exited.
C32_StopTerminatesTaskAndTool ==
  \A i \in 1..MaxTasks :
    (i <= Len(tasks) /\ tasks[i].signalled)
      ~> (i <= Len(tasks) /\ tasks[i].proc # "alive" /\ tasks[i].tool = "none")

\* C37: at most one task subprocess is alive at any time.
C37_AtMostOneTaskAlive ==
  Cardinality({i \in 1..Len(tasks) : tasks[i].proc = "alive"}) <= 1

\* ------------------------------------------------------------------------
\* One attempt in JavaScript number arithmetic (IEEE 754 doubles).
\*
\* A number close to a multiple of 0.1 s is the pair [t, e] with the value
\* t / 10 + e * 2^-55 / 10: t counts tenths of a second, e counts units of
\* 2^-55 / 10, so that every double of magnitude 0.0625 or more, and every
\* difference of two doubles of magnitude 1 or more, has an integer e.

RECURSIVE Pow2(_)
Pow2(n) == IF n = 0 THEN 1 ELSE 2 * Pow2(n - 1)

RECURSIVE Pow2Mod(_, _)
Pow2Mod(n, m) == IF n = 0 THEN 1 % m ELSE (2 * Pow2Mod(n - 1, m)) % m

FracBits == 55
MinExp == -4
MaxExp == 6

FNeg(x) == [t |-> 0 - x.t, e |-> 0 - x.e]
FIsNeg(x) == x.t < 0 \/ (x.t = 0 /\ x.e < 0)

\* The binary exponent k of a positive value: 2^k <= value < 2^(k + 1).
AtLeastPow2(x, k) ==
  LET p == 10 * Pow2(k - MinExp)
      s == Pow2(0 - MinExp) * x.t
  IN s > p \/ (s = p /\ x.e >= 0)
Exponent(x) ==
  CHOOSE k \in MinExp..MaxExp :
    /\ AtLeastPow2(x, k)
    /\ k = MaxExp \/ ~AtLeastPow2(x, k + 1)

\* Round to nearest, ties to even, of a positive exact value: the doubles
\* with exponent k are the multiples of 2^(k - 52), that is of
\* ulp = 5 * 2^(k + 4) units; the value is t * 2^55 + e units.
RoundPos(x) ==
  IF x.t = 0 THEN x
  ELSE LET k == Exponent(x)
           ulp == 5 * Pow2(k - MinExp)
           r2 == (x.t * Pow2Mod(FracBits, 2 * ulp) + x.e) % (2 * ulp)
           r == r2 % ulp
           down == [t |-> x.t, e |-> x.e - r]
           up == [t |-> x.t, e |-> x.e - r + ulp]
       IN IF r = 0 THEN x
          ELSE IF 2 * r < ulp THEN down
          ELSE IF 2 * r > ulp THEN up
          ELSE IF r2 < ulp THEN down ELSE up

Round(x) == IF FIsNeg(x) THEN FNeg(RoundPos(FNeg(x))) ELSE RoundPos(x)

\* parseFloat of a decimal with one fractional digit, and the literals of
\* the configuration.
Double(tenths) == Round([t |-> tenths, e |-> 0])

FAdd(x, y) == Round([t |-> x.t + y.t, e |-> x.e + y.e])
FSub(x, y) == Round([t |-> x.t - y.t, e |-> x.e - y.e])
FGt(x, y) == x.t > y.t \/ (x.t = y.t /\ x.e > y.e)
FLt(x, y) == FGt(y, x)
FGe(x, y) == ~FLt(x, y)
FAbs(x) == IF FIsNeg(x) THEN FNeg(x) ELSE x

FZero == [t |-> 0, e |-> 0]
NoFloatSelection == [clips |-> <<>>, dur |-> FZero]

\* The variant of the loop that never stops on the upper limit.
NeverExceeds(sum, A) == FALSE

\* if (tmpDur + dur > audioDuration + maxAVDiff) break;
Exceeds(sum, A) == FGt(sum, FAdd(A, Double(maxAVDiff)))

\* The greedy accumulation over the shuffled indices, in doubles.
RECURSIVE FloatAccumulate(_, _, _, _)
FloatAccumulate(idxs, i, tmp, A) ==
  IF i > Len(idxs) THEN tmp
  ELSE LET dur == Double(getClipDuration(idxs[i])) IN
       IF FLt(dur, Double(minClipDuration))
            \/ FGt(dur, Double(maxClipDuration))
       THEN FloatAccumulate(idxs, i + 1, tmp, A)
       ELSE IF Exceeds(FAdd(tmp.dur, dur), A)
       THEN tmp
       ELSE LET nxt == [clips |-> Append(tmp.clips, idxs[i]),
                        dur |-> FAdd(tmp.dur, dur)]
            IN IF FGe(nxt.dur, A) THEN nxt
               ELSE FloatAccumulate(idxs, i + 1, nxt, A)

\* The verdict of one attempt, in doubles; "path" names the branch that set
\* found. The rate test compares the tenths: the inputs keep the quotient
\* away from minVideoRate and maxVideoRate (OffRateBounds). The verdict
\* keeps the tenths of cutLastTo, which is within 2^-50 s of them.
FloatJudge(tmp, A) ==
  LET diff == FSub(tmp.dur, A) IN
  IF FLt(diff, FNeg(Double(maxAVDiff))) THEN
    IF FGt(FAbs(diff), Double(videoShorterAudioMaxDiff))
    THEN [kind |-> "continue", path |-> "none", rate |-> NoRate, cut |-> 0]
    ELSE IF RateInBounds(tmp.dur.t, A.t)
    THEN [kind |-> "found", path |-> "faster", rate |-> <<tmp.dur.t, A.t>>,
          cut |-> 0]
    ELSE [kind |-> "none", path |-> "none", rate |-> NoRate, cut |-> 0]
  ELSE IF FGt(diff, Double(maxAVDiff)) THEN
    IF FGt(diff, Double(videoLongerAudioMaxDiff))
    THEN [kind |-> "continue", path |-> "none", rate |-> NoRate, cut |-> 0]
    ELSE IF RateInBounds(A.t, tmp.dur.t)
    THEN [kind |-> "found", path |-> "slower", rate |-> <<A.t, tmp.dur.t>>,
          cut |-> 0]
    ELSE LET lastClipDur ==
               Double(getClipDuration(tmp.clips[Len(tmp.clips)]))
         IN IF FGe(FSub(lastClipDur, diff), Double(minClipDuration))
            THEN [kind |-> "found", path |-> "trim", rate |-> One,
                  cut |-> FSub(lastClipDur, diff).t]
            ELSE [kind |-> "none", path |-> "none", rate |-> NoRate,
                  cut |-> 0]
  ELSE [kind |-> "found", path |-> "plain", rate |-> One, cut |-> 0]

\* for (let idx of idxs) { ... }
FAccumulate ==
  /\ jpc = "shuffled"
  /\ jtmp' = FloatAccumulate(jidxs, 1, NoFloatSelection, Double(jA))
  /\ jpc' = "accumulated"
  /\ UNCHANGED <<jA, jidxs, jverdict, jhanded>>
  /\ UNCHANGED <<rvars, evars, svars, xvars, cvars, dvars, bvars, avars, gvars>>

\* let diff = tmpDur - audioDuration; if (diff < -maxAVDiff) ... else ...
FJudge ==
  /\ jpc = "accumulated"
  /\ jverdict' = FloatJudge(jtmp, Double(jA))
  /\ jpc' = "judged"
  /\ UNCHANGED <<jA, jidxs, jtmp, jhanded>>
  /\ UNCHANGED <<rvars, evars, svars, xvars, cvars, dvars, bvars, avars, gvars>>

\* Pools of three probed clips and audio durations, in tenths of a second.
FloatPools == {<<15, 37, 21>>, <<25, 16, 24>>, <<15, 17, 40>>}
FloatAudios == {19, 30, 36, 50}

InitFloat ==
  /\ allClips \in FloatPools
  /\ RRest /\ EInit /\ SIdle /\ XIdle /\ CIdle /\ DIdle /\ BIdle /\ AIdle /\ GIdle
  /\ jpc = "shuffled"
  /\ jA \in FloatAudios
  /\ jidxs \in shuffle(Len(allClips))
  /\ jtmp = NoFloatSelection
  /\ jverdict = NoVerdict
  /\ jhanded = NoHandOver

FloatNext == FAccumulate \/ FJudge \/ \E open \in OpenAssigns : JHandOver(open)

SpecFloat == InitFloat /\ [][FloatNext]_vars

\* No rate of an attempt lies on a bound of the rate interval.
OffRateBounds ==
  jpc = "accumulated" =>
    /\ jtmp.dur.t * RateDen # minVideoRateNum * jA
    /\ jtmp.dur.t * RateDen # maxVideoRateNum * jA
    /\ jA * RateDen # minVideoRateNum * jtmp.dur.t
    /\ jA * RateDen # maxVideoRateNum * jtmp.dur.t

\* ------------------------------------------------------------------------
\* Claims about the upper limit of the accumulation (SpecFloat).

Accumulated == jpc \in {"accumulated", "judged", "handed"}

\* C36 (as stated): after the greedy accumulation T <= A + maxAVDiff, so
\* diff > maxAVDiff does not hold and neither the slow-down rate nor the
\* tail trim is taken.
C36_LongerBranchNeverTaken ==
  /\ Accumulated =>
       /\ ~Exceeds(jtmp.dur, Double(jA))
       /\ ~FGt(FSub(jtmp.dur, Double(jA)), Double(maxAVDiff))
  /\ jpc = "judged" => jverdict.path \notin {"slower", "trim"}

\* C36 (amended): after the greedy accumulation T is not greater than the
\* computed sum A + maxAVDiff and is at most A + maxAVDiff to the tenth of a
\* second; the slow-down rate or the tail trim is taken only when T equals
\* A + maxAVDiff to the tenth, that is when the computed difference T - A
\* exceeds maxAVDiff by rounding alone.
C36_LongerBranchOnlyByRounding ==
  /\ Accumulated =>
       /\ ~Exceeds(jtmp.dur, Double(jA))
       /\ jtmp.dur.t <= jA + maxAVDiff
  /\ (jpc = "judged" /\ jverdict.path \in {"slower", "trim"})
       => /\ jtmp.dur.t = jA + maxAVDiff
          /\ FGt(FSub(jtmp.dur, Double(jA)), Double(maxAVDiff))

C36_Witness_SlowDownAfterAccumulation ==
  /\ jpc = "judged"
  /\ jverdict.kind = "found"
  /\ jverdict.path = "slower"
  /\ Len(jtmp.clips) = 2
  /\ jtmp = FloatAccumulate(jidxs, 1, NoFloatSelection, Double(jA))

Init == InitRecon
Next == RNext
Spec == Init /\ [][Next]_vars
====
